---- MODULE Spec2Model ----
(***************************************************************************)
(* Seller marketplace client (Expo / React Native) over a Postgres store   *)
(* with row level security.                                                 *)
(*                                                                         *)
(* The store is the schema of                                               *)
(*   supabase/migrations/20251004163357_create_seller_marketplace_schema.sql*)
(* (tables, CHECK / UNIQUE / key constraints, row level security policies). *)
(* The client is one device running the screens of app/: every handler     *)
(* that awaits a remote call is two steps, the tap (which captures the     *)
(* handler's arguments and the render's state in a request) and the        *)
(* completion (the store executes the statement, then the code after the   *)
(* await runs).                                                             *)
(***************************************************************************)
EXTENDS Integers, Sequences, FiniteSets, Bags, TLC

VARIABLES
  db,            \* the store: one set of rows per table
  nextId,        \* next seller_products.id the store hands out (gen_random_uuid)
  user,          \* AuthContext user of the device: {} or {identity}
  inflight,      \* bag of requests awaiting their completion
  products,      \* MyProductsScreen: products state
  catalog,       \* CatalogScreen: products state
  orders,        \* OrdersScreen: orders state
  selectedOrder, \* OrdersScreen: selectedOrder state, {} for null
  modalVisible,  \* OrdersScreen: modalVisible state
  hist,          \* history of the toggles of one row: {} or {record}
  route,         \* the screen the router shows
  form,          \* LoginScreen / SignupScreen: the state of the mounted screen
  authLoading,   \* AuthContext loading
  accounts,      \* auth gateway: the identities registered
  challenge,     \* auth gateway: the one-time code awaiting verification, {} or {[phone, code]}
  setup,         \* ProfileSetupScreen: the fields, error and loading
  profile,       \* ProfileScreen: profile state, {} for null
  editedProfile, \* ProfileScreen: editedProfile state, {} for null
  editing,       \* ProfileScreen: editing state
  profileLoading \* ProfileScreen: loading state

vars == <<db, nextId, user, inflight, products, catalog, orders,
          selectedOrder, modalVisible, hist, route, form, authLoading, accounts, challenge,
          setup, profile, editedProfile, editing, profileLoading>>

storeVars == <<db, nextId>>
invVars == <<products, catalog>>
orderVars == <<orders, selectedOrder, modalVisible>>
authVars == <<route, form, authLoading, accounts, challenge>>
profileVars == <<setup, profile, editedProfile, editing, profileLoading>>

(***************************************************************************)
(* Bounds of the model.                                                    *)
(***************************************************************************)
MaxRowId == 3       \* seller_products ids handed out
MaxInflight == 2    \* requests awaiting completion at once
MaxTaps == 3        \* toggles counted by the toggle history
MaxPasswordLength == 6  \* longest password typed

\* if (password.length < 6)
MinPasswordLength == 6

\* auth.users: s1 and s2 have a sellers row from the start, s3 has none
Identities == {"s1", "s2", "s3"}
Sellers == {"s1", "s2"}
ProductIds == {"p1", "p2"}
OrderIds == {"o1", "o2"}

(***************************************************************************)
(* Schema: the columns of a sellers row the clients read and write.         *)
(* gst_number is {} for null, else {text}; is_verified has DEFAULT false.   *)
(***************************************************************************)
SellerRow(id, shopName, ownerName, phone, email, address, gstNumber) ==
  [id |-> id, shop_name |-> shopName, owner_name |-> ownerName, phone |-> phone,
   email |-> email, address |-> address, gst_number |-> gstNumber, is_verified |-> FALSE]

\* the sellers row an identity starts with
SellerOf(s) == SellerRow(s, "shop", "owner", "+1", s, "addr", {})

(***************************************************************************)
(* Schema: column constraints.                                             *)
(***************************************************************************)
STATUS_OPTIONS == {"confirmed", "packed", "shipped", "delivered", "cancelled"}

StockStatusCheck_NoCheck(v) == TRUE
\* seller_products.stock_status CHECK
StockStatusCheck(v) == v \in {"available", "out_of_stock"}

OrdersStatusCheck_NoCheck(v) == TRUE
OrdersStatusCheck_NotCancelled(status) ==
  status \in {"confirmed", "packed", "shipped", "delivered"}

\* orders.status CHECK
OrdersStatusCheck(v) == v \in {"confirmed", "packed", "shipped", "delivered", "cancelled"}

\* order_items.quantity CHECK
QuantityCheck(q) == q > 0

\* notifications.type CHECK
NotificationTypeCheck(v) == v \in {"new_order", "stock_alert", "payment_settlement", "general"}

SellerProductsUnique_NoUnique(rows, row) == TRUE
\* seller_products UNIQUE(seller_id, product_id), over the other rows of the table
SellerProductsUnique(rows, row) ==
  \A r \in rows : ~(r.seller_id = row.seller_id /\ r.product_id = row.product_id)

PrimaryKey_None(rows, row) == TRUE
\* PRIMARY KEY of every table
PrimaryKey(rows, row) == \A r \in rows : r.id # row.id

Ids(rows) == {r.id : r \in rows}

\* Column and key constraints a written row must meet; others = the table without it
Constraints(d, t, row, others) ==
  /\ PrimaryKey(others, row)
  /\ CASE t = "sellers" -> row.id \in Identities
       [] t = "master_products" -> TRUE
       [] t = "seller_products" ->
            /\ StockStatusCheck(row.stock_status)
            /\ SellerProductsUnique(others, row)
            /\ row.seller_id \in Ids(d.sellers)
            /\ row.product_id \in Ids(d.master_products)
       [] t = "orders" ->
            /\ OrdersStatusCheck(row.status)
            /\ row.seller_id \in Ids(d.sellers)
       [] t = "order_items" ->
            /\ QuantityCheck(row.quantity)
            /\ row.order_id \in Ids(d.orders)
            /\ row.product_id \in Ids(d.master_products)
       [] t = "notifications" ->
            /\ NotificationTypeCheck(row.type)
            /\ row.seller_id \in Ids(d.sellers)

(***************************************************************************)
(* Schema: row level security policies, one operator per policy            *)
(* expression. uid is auth.uid() of the request.                           *)
(***************************************************************************)
SellersSelectUsing(uid, row) == uid = row.id
SellersInsertCheck(uid, row) == uid = row.id
SellersUpdateUsing(uid, row) == uid = row.id
SellersUpdateCheck(uid, row) == uid = row.id
MasterProductsSelectUsing_AnyRow(uid, row) == TRUE
MasterProductsSelectUsing(uid, row) == row.is_active = TRUE
SellerProductsSelectUsing(uid, row) == uid = row.seller_id
SellerProductsInsertCheck(uid, row) == uid = row.seller_id
SellerProductsUpdateUsing(uid, row) == uid = row.seller_id
SellerProductsUpdateCheck_AnyRow(uid, row) == TRUE
SellerProductsUpdateCheck(uid, row) == uid = row.seller_id
SellerProductsDeleteUsing_AnyRow(uid, row) == TRUE
SellerProductsDeleteUsing(uid, row) == uid = row.seller_id
OrdersSelectUsing(uid, row) == uid = row.seller_id
OrdersUpdateUsing_AnyRow(uid, row) == TRUE
OrdersUpdateUsing(uid, row) == uid = row.seller_id
OrdersUpdateCheck(uid, row) == uid = row.seller_id
OrderItemsSelectUsing(d, uid, row) ==
  \E o \in d.orders : o.id = row.order_id /\ o.seller_id = uid
NotificationsSelectUsing(uid, row) == uid = row.seller_id
NotificationsUpdateUsing(uid, row) == uid = row.seller_id
NotificationsUpdateCheck(uid, row) == uid = row.seller_id

Tables == {"sellers", "master_products", "seller_products", "orders",
           "order_items", "notifications"}

\* USING of the policy for verb on table t; row level security is enabled on
\* every table, so a verb without a policy sees no row
Using(d, t, verb, uid, row) ==
  CASE t = "sellers" /\ verb = "select" -> SellersSelectUsing(uid, row)
    [] t = "sellers" /\ verb = "update" -> SellersUpdateUsing(uid, row)
    [] t = "master_products" /\ verb = "select" -> MasterProductsSelectUsing(uid, row)
    [] t = "seller_products" /\ verb = "select" -> SellerProductsSelectUsing(uid, row)
    [] t = "seller_products" /\ verb = "update" -> SellerProductsUpdateUsing(uid, row)
    [] t = "seller_products" /\ verb = "delete" -> SellerProductsDeleteUsing(uid, row)
    [] t = "orders" /\ verb = "select" -> OrdersSelectUsing(uid, row)
    [] t = "orders" /\ verb = "update" -> OrdersUpdateUsing(uid, row)
    [] t = "order_items" /\ verb = "select" -> OrderItemsSelectUsing(d, uid, row)
    [] t = "notifications" /\ verb = "select" -> NotificationsSelectUsing(uid, row)
    [] t = "notifications" /\ verb = "update" -> NotificationsUpdateUsing(uid, row)
    [] OTHER -> FALSE

\* WITH CHECK of the policy for verb on table t, on the row as written
WithCheck(d, t, verb, uid, row) ==
  CASE t = "sellers" /\ verb = "insert" -> SellersInsertCheck(uid, row)
    [] t = "sellers" /\ verb = "update" -> SellersUpdateCheck(uid, row)
    [] t = "seller_products" /\ verb = "insert" -> SellerProductsInsertCheck(uid, row)
    [] t = "seller_products" /\ verb = "update" -> SellerProductsUpdateCheck(uid, row)
    [] t = "orders" /\ verb = "update" -> OrdersUpdateCheck(uid, row)
    [] t = "notifications" /\ verb = "update" -> NotificationsUpdateCheck(uid, row)
    [] OTHER -> FALSE

(***************************************************************************)
(* The store's query interface: one statement, all or nothing.             *)
(* Each returns [db, error, data].                                         *)
(***************************************************************************)
Patched(row, patch) ==
  [f \in DOMAIN row |-> IF f \in DOMAIN patch THEN patch[f] ELSE row[f]]

\* select * from t, as uid
SelectAll(d, uid, t) ==
  [db |-> d, error |-> FALSE, data |-> {r \in d[t] : Using(d, t, "select", uid, r)}]

\* select * from t where col = val, as uid
Select(d, uid, t, col, val) ==
  [db |-> d, error |-> FALSE,
   data |-> {r \in d[t] : r[col] = val /\ Using(d, t, "select", uid, r)}]

\* insert into t values (row), as uid
Insert(d, uid, t, row) ==
  IF WithCheck(d, t, "insert", uid, row) /\ Constraints(d, t, row, d[t])
  THEN [db |-> [d EXCEPT ![t] = d[t] \cup {row}], error |-> FALSE, data |-> {}]
  ELSE [db |-> d, error |-> TRUE, data |-> {}]

\* update t set <patch> where id = id, as uid
Update(d, uid, t, id, patch) ==
  LET hit == {r \in d[t] : r.id = id /\ Using(d, t, "update", uid, r)}
      rest == d[t] \ hit
      new == {Patched(r, patch) : r \in hit}
  IN IF \A r \in new : WithCheck(d, t, "update", uid, r) /\ Constraints(d, t, r, rest)
     THEN [db |-> [d EXCEPT ![t] = rest \cup new], error |-> FALSE, data |-> {}]
     ELSE [db |-> d, error |-> TRUE, data |-> {}]

\* delete from t where id = id, as uid (no table a seller may delete from is
\* referenced by another, so no ON DELETE CASCADE follows)
Delete_AllVisible(d, uid, t, id) ==
  LET hit == {r \in d[t] : Using(d, t, "delete", uid, r)}
  IN [db |-> [d EXCEPT ![t] = d[t] \ hit], error |-> FALSE, data |-> {}]

Delete(d, uid, t, id) ==
  LET hit == {r \in d[t] : r.id = id /\ Using(d, t, "delete", uid, r)}
  IN [db |-> [d EXCEPT ![t] = d[t] \ hit], error |-> FALSE, data |-> {}]

(***************************************************************************)
(* Requests. A handler's tap puts one in flight; it carries what the       *)
(* handler's closure holds: the session the client sends (uid), the        *)
(* arguments (row, key, arg) and the state of the render it was created in *)
(* (snap).                                                                 *)
(***************************************************************************)
Req(kind, uid, row, key, arg, snap) ==
  [kind |-> kind, uid |-> uid, row |-> row, key |-> key, arg |-> arg, snap |-> snap]

CanSend == BagCardinality(inflight) < MaxInflight
Send(r) == inflight' = inflight (+) SetToBag({r})
Pending(kind) == {r \in BagToSet(inflight) : r.kind = kind}
Receive(r) == inflight' = inflight (-) SetToBag({r})

\* The request did not reach the store, or its answer was lost: an error, no effect
NetworkError(d) == [db |-> d, error |-> TRUE, data |-> {}]

\* The two ways a remote call ends: the store executes it, or the network fails
Outcomes(d, res) == {res, NetworkError(d)}

(***************************************************************************)
(* MyProductsScreen, app/(tabs)/index.tsx                                   *)
(***************************************************************************)
\* the columns loadProducts selects
SellerProductView(r) == [id |-> r.id, product_id |-> r.product_id, stock_status |-> r.stock_status]

\* loadProducts (on mount, on pull to refresh): if (!user) return; then the select
LoadProductsTap ==
  /\ user # {} /\ CanSend
  /\ \E u \in user : Send(Req("loadProducts", u, 0, "", "", {}))
  /\ UNCHANGED <<storeVars, user, invVars, orderVars, authVars, profileVars>>

LoadProductsDone ==
  \E r \in Pending("loadProducts") :
    \E res \in Outcomes(db, Select(db, r.uid, "seller_products", "seller_id", r.uid)) :
      /\ Receive(r)
      /\ products' = {SellerProductView(x) : x \in res.data}
      /\ UNCHANGED <<storeVars, user, catalog, orderVars, authVars, profileVars>>

\* toggleStock: const newStatus = currentStatus === 'available' ? 'out_of_stock' : 'available'
NewStatus(currentStatus) ==
  IF currentStatus = "available" THEN "out_of_stock" ELSE "available"

\* products.map(p => p.id === productId ? { ...p, stock_status: newStatus } : p)
WithStockStatus(list, productId, newStatus) ==
  {IF p.id = productId THEN [p EXCEPT !.stock_status = newStatus] ELSE p : p \in list}

\* products.filter(p => p.id !== productId)
WithoutProduct(list, productId) == {p \in list : p.id # productId}

\* Switch onValueChange={() => toggleStock(item.id, item.stock_status)}
ToggleStockTap(item) ==
  /\ item \in products /\ CanSend
  /\ \E u \in user :
       Send(Req("toggleStock", u, item.id, "", NewStatus(item.stock_status), products))
  /\ UNCHANGED <<storeVars, user, invVars, orderVars, authVars, profileVars>>

\* the remote call of toggleStock: .update({ stock_status: newStatus }).eq('id', productId)
ToggleStockCall(r) == Update(db, r.uid, "seller_products", r.row, [stock_status |-> r.arg])

ToggleStockEnd_Eager(r, res) ==
  /\ r \in Pending("toggleStock")
  /\ Receive(r)
  /\ db' = res.db
  /\ products' = WithStockStatus(r.snap, r.row, r.arg)
  /\ UNCHANGED <<nextId, user, catalog, orderVars, authVars, profileVars>>

\* toggleStock after the await: if (!error) setProducts(products.map(...))
ToggleStockEnd(r, res) ==
  /\ r \in Pending("toggleStock")
  /\ Receive(r)
  /\ db' = res.db
  /\ products' = IF res.error THEN products ELSE WithStockStatus(r.snap, r.row, r.arg)
  /\ UNCHANGED <<nextId, user, catalog, orderVars, authVars, profileVars>>

ToggleStockDone(r) == \E res \in Outcomes(db, ToggleStockCall(r)) : ToggleStockEnd(r, res)

\* delete button onPress={() => removeProduct(item.id)}
RemoveProductTap(item) ==
  /\ item \in products /\ CanSend
  /\ \E u \in user : Send(Req("removeProduct", u, item.id, "", "", products))
  /\ UNCHANGED <<storeVars, user, invVars, orderVars, authVars, profileVars>>

\* the remote call of removeProduct: .delete().eq('id', productId)
RemoveProductCall(r) == Delete(db, r.uid, "seller_products", r.row)

\* removeProduct after the await: if (!error) setProducts(products.filter(...))
RemoveProductEnd(r, res) ==
  /\ r \in Pending("removeProduct")
  /\ Receive(r)
  /\ db' = res.db
  /\ products' = IF res.error THEN products ELSE WithoutProduct(r.snap, r.row)
  /\ UNCHANGED <<nextId, user, catalog, orderVars, authVars, profileVars>>

RemoveProductDone(r) == \E res \in Outcomes(db, RemoveProductCall(r)) : RemoveProductEnd(r, res)

(***************************************************************************)
(* CatalogScreen, app/(tabs)/catalog.tsx                                    *)
(***************************************************************************)
\* loadProducts: if (!user) return; then the first select
LoadCatalogTap ==
  /\ user # {} /\ CanSend
  /\ \E u \in user : Send(Req("loadCatalog", u, 0, "", "", {}))
  /\ UNCHANGED <<storeVars, user, invVars, orderVars, authVars, profileVars>>

\* loadProducts after its first await: masterProducts is held, the second select is sent
LoadCatalogMaster ==
  \E r \in Pending("loadCatalog") :
    \E res \in Outcomes(db, Select(db, r.uid, "master_products", "is_active", TRUE)) :
      /\ inflight' = (inflight (-) SetToBag({r}))
                       (+) SetToBag({Req("loadCatalog2", r.uid, 0, "", "", Ids(res.data))})
     
      /\ UNCHANGED <<storeVars, user, invVars, orderVars, authVars, profileVars>>

\* (masterProducts || []).map(p => ({ ...p, is_added: addedProductIds.has(p.id) }))
ProductsWithStatus(masterProducts, addedProductIds) ==
  {[id |-> p, is_added |-> p \in addedProductIds] : p \in masterProducts}

\* loadProducts after its second await: setProducts(productsWithStatus)
LoadCatalogDone ==
  \E r \in Pending("loadCatalog2") :
    \E res \in Outcomes(db, Select(db, r.uid, "seller_products", "seller_id", r.uid)) :
      /\ Receive(r)
      /\ catalog' = ProductsWithStatus(r.snap, {x.product_id : x \in res.data})
      /\ UNCHANGED <<storeVars, user, products, orderVars, authVars, profileVars>>

\* products.map(p => p.id === productId ? { ...p, is_added: true } : p)
WithAdded(list, productId) ==
  {IF p.id = productId THEN [p EXCEPT !.is_added = TRUE] ELSE p : p \in list}

\* the add button, rendered for an item with is_added false: addProduct(item.id)
AddProductTap(item) ==
  /\ item \in catalog /\ ~item.is_added
  /\ user # {} /\ CanSend
  /\ \E u \in user : Send(Req("addProduct", u, 0, item.id, "", catalog))
  /\ UNCHANGED <<storeVars, user, invVars, orderVars, authVars, profileVars>>

NewSellerProduct_OutOfStock(id, uid, productId) ==
  [id |-> id, seller_id |-> uid, product_id |-> productId, stock_status |-> "out_of_stock"]

\* the row addProduct inserts; id is the column default
NewSellerProduct(id, uid, productId) ==
  [id |-> id, seller_id |-> uid, product_id |-> productId, stock_status |-> "available"]

\* the remote call of addProduct: .insert({ seller_id: user.id, product_id: productId, ... })
AddProductCall(r) == Insert(db, r.uid, "seller_products", NewSellerProduct(nextId, r.uid, r.key))

\* addProduct after the await: if (!error) setProducts(products.map(...))
AddProductEnd(r, res) ==
  /\ r \in Pending("addProduct")
  /\ nextId <= MaxRowId
  /\ Receive(r)
  /\ db' = res.db
  /\ nextId' = IF res.error THEN nextId ELSE nextId + 1
  /\ catalog' = IF res.error THEN catalog ELSE WithAdded(r.snap, r.key)
  /\ UNCHANGED <<user, products, orderVars, authVars, profileVars>>

AddProductDone(r) == \E res \in Outcomes(db, AddProductCall(r)) : AddProductEnd(r, res)

(***************************************************************************)
(* OrdersScreen, app/(tabs)/orders.tsx                                      *)
(***************************************************************************)
\* the columns of the Order interface the screen reads
OrderView(r) == [id |-> r.id, status |-> r.status]

\* loadOrders (on mount, on pull to refresh): if (!user) return; then the select
LoadOrdersTap ==
  /\ user # {} /\ CanSend
  /\ \E u \in user : Send(Req("loadOrders", u, 0, "", "", {}))
  /\ UNCHANGED <<storeVars, user, invVars, orderVars, authVars, profileVars>>

\* loadOrders after the await: setOrders(data || [])
LoadOrdersDone ==
  \E r \in Pending("loadOrders") :
    \E res \in Outcomes(db, Select(db, r.uid, "orders", "seller_id", r.uid)) :
      /\ Receive(r)
      /\ orders' = {OrderView(x) : x \in res.data}
      /\ UNCHANGED <<storeVars, user, invVars, selectedOrder, modalVisible, authVars, profileVars>>

\* order card onPress: setSelectedOrder(item); setModalVisible(true).
\* The modal covers the list while it is visible.
OpenOrder(item) ==
  /\ item \in orders /\ ~modalVisible
  /\ selectedOrder' = {item}
  /\ modalVisible' = TRUE
  /\ UNCHANGED <<storeVars, user, inflight, invVars, orders, authVars, profileVars>>

\* the modal's close button and onRequestClose: setModalVisible(false)
CloseModal ==
  /\ modalVisible
  /\ modalVisible' = FALSE
  /\ UNCHANGED <<storeVars, user, inflight, invVars, orders, selectedOrder, authVars, profileVars>>

\* orders.map(o => o.id === orderId ? { ...o, status: newStatus } : o)
WithStatus(list, orderId, newStatus) ==
  {IF o.id = orderId THEN [o EXCEPT !.status = newStatus] ELSE o : o \in list}

\* a status option of the modal: onPress={() => updateOrderStatus(selectedOrder.id, status.value)}
UpdateOrderStatusTap(newStatus) ==
  /\ modalVisible /\ newStatus \in STATUS_OPTIONS /\ CanSend
  /\ \E sel \in selectedOrder, u \in user :
       Send(Req("updateOrderStatus", u, 0, sel.id, newStatus, orders))
  /\ UNCHANGED <<storeVars, user, invVars, orderVars, authVars, profileVars>>

\* the remote call of updateOrderStatus: .update({ status: newStatus, updated_at }).eq('id', orderId)
UpdateOrderStatusCall(r) == Update(db, r.uid, "orders", r.key, [status |-> r.arg])

\* updateOrderStatus after the await: if (!error) { setOrders(orders.map(...)); setModalVisible(false) }
UpdateOrderStatusEnd(r, res) ==
  /\ r \in Pending("updateOrderStatus")
  /\ Receive(r)
  /\ db' = res.db
  /\ orders' = IF res.error THEN orders ELSE WithStatus(r.snap, r.key, r.arg)
  /\ modalVisible' = IF res.error THEN modalVisible ELSE FALSE
  /\ UNCHANGED <<nextId, user, invVars, selectedOrder, authVars, profileVars>>

UpdateOrderStatusDone(r) ==
  \E res \in Outcomes(db, UpdateOrderStatusCall(r)) : UpdateOrderStatusEnd(r, res)

(***************************************************************************)
(* Any other client of the store: a statement sent with a seller's session *)
(* (another device, another seller). The store answers at once.            *)
(***************************************************************************)
ApiRows(t, id) ==
  CASE t = "sellers" -> {SellerOf(s) : s \in Identities}
    [] t = "master_products" -> {[id |-> "p9", is_active |-> TRUE]}
    [] t = "seller_products" ->
         {[id |-> id, seller_id |-> s, product_id |-> p, stock_status |-> v] :
            s \in Sellers, p \in ProductIds, v \in {"available", "discontinued"}}
    [] t = "orders" -> {[id |-> "o9", seller_id |-> s, status |-> "confirmed"] : s \in Sellers}
    [] t = "order_items" ->
         {[id |-> "i9", order_id |-> o, product_id |-> "p1", quantity |-> 1] : o \in OrderIds}
    [] t = "notifications" ->
         {[id |-> "n9", seller_id |-> s, type |-> "general", is_read |-> FALSE] : s \in Sellers}

ApiPatches(t) ==
  CASE t = "sellers" -> {[shop_name |-> "renamed"]} \cup {[id |-> s] : s \in Identities}
    [] t = "master_products" -> {[is_active |-> b] : b \in BOOLEAN}
    [] t = "seller_products" ->
         {[stock_status |-> v] : v \in {"available", "out_of_stock", "discontinued"}}
           \cup {[seller_id |-> s] : s \in Sellers}
    [] t = "orders" ->
         {[status |-> v] : v \in {"delivered", "returned"}}
           \cup {[seller_id |-> s] : s \in Sellers}
    [] t = "order_items" -> {[quantity |-> 2]}
    [] t = "notifications" -> {[is_read |-> TRUE]} \cup {[seller_id |-> s] : s \in Sellers}

ApiInsert(uid, t) ==
  /\ t = "seller_products" => nextId <= MaxRowId
  /\ \E row \in ApiRows(t, nextId) :
       LET res == Insert(db, uid, t, row)
       IN /\ db' = res.db
          /\ nextId' = IF t = "seller_products" /\ ~res.error THEN nextId + 1 ELSE nextId
  /\ UNCHANGED <<user, inflight, invVars, orderVars, authVars, profileVars>>

ApiUpdate(uid, t) ==
  /\ \E row \in db[t], patch \in ApiPatches(t) :
       LET res == Update(db, uid, t, row.id, patch)
       IN db' = res.db
  /\ UNCHANGED <<nextId, user, inflight, invVars, orderVars, authVars, profileVars>>

ApiDelete(uid, t) ==
  /\ \E row \in db[t] :
       LET res == Delete(db, uid, t, row.id)
       IN db' = res.db
  /\ UNCHANGED <<nextId, user, inflight, invVars, orderVars, authVars, profileVars>>

(***************************************************************************)
(* Text typed into the forms: a string is a sequence of characters.         *)
(***************************************************************************)
Chars(n, c) == [i \in 1..n |-> c]

\* the passwords typed: none, and around the minimum length, one per length
\* ending in a and one ending in b
Passwords ==
  {<<>>} \cup {Chars(n, "a") : n \in (MinPasswordLength - 1)..MaxPasswordLength}
         \cup {Chars(n - 1, "a") \o <<"b">> : n \in (MinPasswordLength - 1)..MaxPasswordLength}

\* an email address is written as the identity it belongs to
Emails == {<<>>, <<"s1">>, <<"s3">>}
Phones == {<<>>, <<"1">>, <<"+", "1">>, <<"+", "2">>}
Otps == {<<>>, <<"7">>, <<"8">>}

\* ProfileSetupScreen: useState initial values
EmptySetup ==
  [shopName |-> "", ownerName |-> "", phone |-> "", address |-> "", gstNumber |-> "",
   error |-> "", loading |-> FALSE]

EmptyForm ==
  [mode |-> "email", email |-> <<>>, password |-> <<>>, confirmPassword |-> <<>>,
   phone |-> <<>>, otp |-> <<>>, otpSent |-> FALSE, error |-> "", loading |-> FALSE]

(***************************************************************************)
(* AuthContext and the auth gateway behind it. Each call returns           *)
(* [error, message, user] and the gateway's state after it.                 *)
(***************************************************************************)
AuthOk(acc, ch, u) == [error |-> FALSE, message |-> "", user |-> {u}, accounts |-> acc, challenge |-> ch]
AuthError(acc, ch, m) == [error |-> TRUE, message |-> m, user |-> {}, accounts |-> acc, challenge |-> ch]

\* the password every registered identity has
RegisteredPassword == Chars(MinPasswordLength, "a")

\* signIn(email, password)
SignIn(acc, ch, e, pw) ==
  IF e # <<>> /\ e[1] \in acc /\ pw = RegisteredPassword
  THEN AuthOk(acc, ch, e[1])
  ELSE AuthError(acc, ch, "Invalid login credentials")

\* signUp(email, password): registers the identity and opens its session
SignUp(acc, ch, e, pw) ==
  IF e # <<>> /\ e[1] \notin acc
  THEN AuthOk(acc \cup {e[1]}, ch, e[1])
  ELSE AuthError(acc, ch, "User already registered")

\* the identity a phone number belongs to, and the code the gateway sends
PhoneIdentity(ph) == "s3"
OtpCode(ph) == <<"7">>

\* signInWithPhone(phone): a new code replaces the one before
SignInWithPhone(acc, ch, ph) ==
  [error |-> FALSE, message |-> "", user |-> {}, accounts |-> acc,
   challenge |-> {[phone |-> ph, code |-> OtpCode(ph)]}]

\* verifyOtp(phone, otp): the code is used up, the identity registered if new
VerifyOtp(acc, ch, ph, code) ==
  IF [phone |-> ph, code |-> code] \in ch
  THEN AuthOk(acc \cup {PhoneIdentity(ph)}, {}, PhoneIdentity(ph))
  ELSE AuthError(acc, ch, "Token has expired or is invalid")

\* the two ways a call to the gateway ends
AuthOutcomes(res) == {res, AuthError(accounts, challenge, "Network request failed")}

\* AuthContext on app start: the persisted session, if any, is restored
AuthReady ==
  /\ authLoading
  /\ authLoading' = FALSE
  /\ \E u \in {{}} \cup {{a} : a \in accounts} : user' = u
  /\ UNCHANGED <<storeVars, inflight, invVars, orderVars, route, form, accounts, challenge, profileVars>>

(***************************************************************************)
(* IndexScreen, app/index.tsx                                               *)
(***************************************************************************)
\* checkProfile up to its await: if (loading) return; if (!user) -> login
CheckProfile ==
  /\ route = "index" /\ ~authLoading /\ Pending("checkProfile") = {}
  /\ IF user = {}
     THEN route' = "login" /\ UNCHANGED inflight
     ELSE /\ CanSend
          /\ \E u \in user : Send(Req("checkProfile", u, 0, <<>>, <<>>, {}))
          /\ UNCHANGED route
  /\ UNCHANGED <<storeVars, user, invVars, orderVars, form, authLoading, accounts, challenge, profileVars>>

\* the remote call of checkProfile: .from('sellers').select('id').eq('id', user.id)
CheckProfileCall(r) == Select(db, r.uid, "sellers", "id", r.uid)

\* checkProfile after the await: data ? tabs : profile-setup (the error is not read)
CheckProfileEnd(r, res) ==
  /\ r \in Pending("checkProfile")
  /\ Receive(r)
  /\ route' = IF res.data # {} THEN "tabs" ELSE "profile-setup"
  /\ UNCHANGED <<storeVars, user, invVars, orderVars, form, authLoading, accounts, challenge, profileVars>>

CheckProfileDone(r) == \E res \in Outcomes(db, CheckProfileCall(r)) : CheckProfileEnd(r, res)

(***************************************************************************)
(* LoginScreen, app/(auth)/login.tsx, and SignupScreen,                     *)
(* app/(auth)/signup.tsx. One of them is mounted at a time; a screen left   *)
(* behind keeps the calls it is awaiting, and their continuations still     *)
(* run, on a screen that is no longer shown.                                *)
(***************************************************************************)
OnAuthScreen == route \in {"login", "signup"}

\* error.message || fallback
ErrorText(message, fallback) == IF message # "" THEN message ELSE fallback

\* a request whose screen is no longer the one shown
Unmounted(r) == [r EXCEPT !.snap = {"unmounted"}]

\* router.replace / router.push: the target mounts with fresh state
Replace(r, to) ==
  /\ route' = to
  /\ form' = EmptyForm
  /\ inflight' = BagOfAll(Unmounted, inflight (-) SetToBag({r}))

Push(to) ==
  /\ route' = to
  /\ form' = EmptyForm
  /\ inflight' = BagOfAll(Unmounted, inflight)

Settled_Silent(r, res, fallback) ==
  IF r.snap # {} THEN form ELSE [form EXCEPT !.loading = FALSE]

\* setLoading(false); if (error) setError(error.message || fallback)
Settled(r, res, fallback) ==
  IF r.snap # {} THEN form
  ELSE [form EXCEPT !.loading = FALSE,
                    !.error = IF res.error THEN ErrorText(res.message, fallback) ELSE @]

\* what a call that completed leaves in AuthContext and in the gateway
Gateway(res) ==
  /\ accounts' = res.accounts
  /\ challenge' = res.challenge
  /\ user' = IF res.user = {} THEN user ELSE res.user

SetMode(m) ==
  /\ OnAuthScreen
  /\ form' = [form EXCEPT !.mode = m]
  /\ UNCHANGED <<storeVars, user, inflight, invVars, orderVars, route, authLoading, accounts, challenge, profileVars>>

\* the text inputs have editable={!loading}
SetEmail(v) ==
  /\ OnAuthScreen /\ form.mode = "email" /\ ~form.loading
  /\ form' = [form EXCEPT !.email = v]
  /\ UNCHANGED <<storeVars, user, inflight, invVars, orderVars, route, authLoading, accounts, challenge, profileVars>>

SetPassword(v) ==
  /\ OnAuthScreen /\ form.mode = "email" /\ ~form.loading
  /\ form' = [form EXCEPT !.password = v]
  /\ UNCHANGED <<storeVars, user, inflight, invVars, orderVars, route, authLoading, accounts, challenge, profileVars>>

SetConfirmPassword(v) ==
  /\ route = "signup" /\ form.mode = "email" /\ ~form.loading
  /\ form' = [form EXCEPT !.confirmPassword = v]
  /\ UNCHANGED <<storeVars, user, inflight, invVars, orderVars, route, authLoading, accounts, challenge, profileVars>>

SetPhone_WhileLoading(v) ==
  /\ OnAuthScreen /\ form.mode = "phone" /\ ~form.otpSent
  /\ form' = [form EXCEPT !.phone = v]
  /\ UNCHANGED <<storeVars, user, inflight, invVars, orderVars, route, authLoading, accounts, challenge, profileVars>>

SetPhone(v) ==
  /\ OnAuthScreen /\ form.mode = "phone" /\ ~form.otpSent /\ ~form.loading
  /\ form' = [form EXCEPT !.phone = v]
  /\ UNCHANGED <<storeVars, user, inflight, invVars, orderVars, route, authLoading, accounts, challenge, profileVars>>

SetOtp(v) ==
  /\ OnAuthScreen /\ form.mode = "phone" /\ form.otpSent /\ ~form.loading
  /\ form' = [form EXCEPT !.otp = v]
  /\ UNCHANGED <<storeVars, user, inflight, invVars, orderVars, route, authLoading, accounts, challenge, profileVars>>

\* "Change phone number": setOtpSent(false); setOtp('')
ChangePhoneNumber ==
  /\ OnAuthScreen /\ form.mode = "phone" /\ form.otpSent
  /\ form' = [form EXCEPT !.otpSent = FALSE, !.otp = <<>>]
  /\ UNCHANGED <<storeVars, user, inflight, invVars, orderVars, route, authLoading, accounts, challenge, profileVars>>

\* "Sign up": router.push('/(auth)/signup')
GoToSignup ==
  /\ route = "login"
  /\ Push("signup")
  /\ UNCHANGED <<storeVars, user, invVars, orderVars, authLoading, accounts, challenge, profileVars>>

\* "Sign in": router.push('/(auth)/login')
GoToLogin ==
  /\ route = "signup"
  /\ Push("login")
  /\ UNCHANGED <<storeVars, user, invVars, orderVars, authLoading, accounts, challenge, profileVars>>

\* handleEmailLogin up to its await
HandleEmailLogin ==
  /\ route = "login" /\ form.mode = "email" /\ ~form.loading
  /\ IF form.email = <<>> \/ form.password = <<>>
     THEN /\ form' = [form EXCEPT !.error = "Please fill in all fields"]
          /\ UNCHANGED inflight
     ELSE /\ CanSend
          /\ form' = [form EXCEPT !.error = "", !.loading = TRUE]
          /\ Send(Req("handleEmailLogin", "", 0, form.email, form.password, {}))
  /\ UNCHANGED <<storeVars, user, invVars, orderVars, route, authLoading, accounts, challenge, profileVars>>

\* handleEmailLogin after the await: error ? setError : router.replace('/(tabs)')
HandleEmailLoginEnd(r, res) ==
  /\ r \in Pending("handleEmailLogin")
  /\ Gateway(res)
  /\ IF res.error
     THEN Receive(r) /\ form' = Settled(r, res, "Failed to sign in") /\ UNCHANGED route
     ELSE Replace(r, "tabs")
  /\ UNCHANGED <<storeVars, invVars, orderVars, authLoading, profileVars>>

HandleEmailLoginDone(r) ==
  \E res \in AuthOutcomes(SignIn(accounts, challenge, r.key, r.arg)) : HandleEmailLoginEnd(r, res)

PasswordMismatch_Never(password, confirmPassword) == FALSE
\* password !== confirmPassword
PasswordMismatch(password, confirmPassword) == password # confirmPassword

PasswordTooShort_Never(password) == FALSE
\* password.length < 6
PasswordTooShort(password) == Len(password) < MinPasswordLength

\* handleEmailSignup up to its await
HandleEmailSignup ==
  /\ route = "signup" /\ form.mode = "email" /\ ~form.loading
  /\ IF form.email = <<>> \/ form.password = <<>> \/ form.confirmPassword = <<>>
     THEN /\ form' = [form EXCEPT !.error = "Please fill in all fields"]
          /\ UNCHANGED inflight
     ELSE IF PasswordMismatch(form.password, form.confirmPassword)
     THEN /\ form' = [form EXCEPT !.error = "Passwords do not match"]
          /\ UNCHANGED inflight
     ELSE IF PasswordTooShort(form.password)
     THEN /\ form' = [form EXCEPT !.error = "Password must be at least 6 characters"]
          /\ UNCHANGED inflight
     ELSE /\ CanSend
          /\ form' = [form EXCEPT !.error = "", !.loading = TRUE]
          /\ Send(Req("handleEmailSignup", "", 0, form.email, form.password, {}))
  /\ UNCHANGED <<storeVars, user, invVars, orderVars, route, authLoading, accounts, challenge, profileVars>>

\* handleEmailSignup after the await: error ? setError : router.replace('/(auth)/profile-setup')
HandleEmailSignupEnd(r, res) ==
  /\ r \in Pending("handleEmailSignup")
  /\ Gateway(res)
  /\ IF res.error
     THEN Receive(r) /\ form' = Settled(r, res, "Failed to create account") /\ UNCHANGED route
     ELSE Replace(r, "profile-setup")
  /\ UNCHANGED <<storeVars, invVars, orderVars, authLoading, profileVars>>

HandleEmailSignupDone(r) ==
  \E res \in AuthOutcomes(SignUp(accounts, challenge, r.key, r.arg)) : HandleEmailSignupEnd(r, res)

StartsWithPlus_Always(phone) == TRUE
\* phone.startsWith('+')
StartsWithPlus(phone) == Len(phone) > 0 /\ phone[1] = "+"

\* handlePhoneSendOtp up to its await, the same on both screens
HandlePhoneSendOtp ==
  /\ OnAuthScreen /\ form.mode = "phone" /\ ~form.otpSent /\ ~form.loading
  /\ IF form.phone = <<>>
     THEN /\ form' = [form EXCEPT !.error = "Please enter your phone number"]
          /\ UNCHANGED inflight
     ELSE IF ~StartsWithPlus(form.phone)
     THEN /\ form' = [form EXCEPT !.error =
                        "Phone number must include country code (e.g., +1234567890)"]
          /\ UNCHANGED inflight
     ELSE /\ CanSend
          /\ form' = [form EXCEPT !.error = "", !.loading = TRUE]
          /\ Send(Req("handlePhoneSendOtp", "", 0, form.phone, <<>>, {}))
  /\ UNCHANGED <<storeVars, user, invVars, orderVars, route, authLoading, accounts, challenge, profileVars>>

\* handlePhoneSendOtp after the await: error ? setError : setOtpSent(true)
HandlePhoneSendOtpEnd(r, res) ==
  /\ r \in Pending("handlePhoneSendOtp")
  /\ Gateway(res)
  /\ Receive(r)
  /\ form' = IF res.error \/ r.snap # {}
             THEN Settled(r, res, "Failed to send OTP")
             ELSE [Settled(r, res, "Failed to send OTP") EXCEPT !.otpSent = TRUE]
  /\ UNCHANGED <<storeVars, invVars, orderVars, route, authLoading, profileVars>>

HandlePhoneSendOtpDone(r) ==
  \E res \in AuthOutcomes(SignInWithPhone(accounts, challenge, r.key)) : HandlePhoneSendOtpEnd(r, res)

VerifyKind(screen) ==
  IF screen = "login" THEN "login.handlePhoneVerifyOtp" ELSE "signup.handlePhoneVerifyOtp"

\* where handlePhoneVerifyOtp of a screen goes when a session was opened
AfterVerify(screen) == IF screen = "login" THEN "tabs" ELSE "profile-setup"

\* handlePhoneVerifyOtp up to its await
HandlePhoneVerifyOtp(screen) ==
  /\ route = screen /\ OnAuthScreen /\ form.mode = "phone" /\ form.otpSent /\ ~form.loading
  /\ IF form.otp = <<>>
     THEN /\ form' = [form EXCEPT !.error = "Please enter the OTP"]
          /\ UNCHANGED inflight
     ELSE /\ CanSend
          /\ form' = [form EXCEPT !.error = "", !.loading = TRUE]
          /\ Send(Req(VerifyKind(screen), "", 0, form.phone, form.otp, {}))
  /\ UNCHANGED <<storeVars, user, invVars, orderVars, route, authLoading, accounts, challenge, profileVars>>

\* handlePhoneVerifyOtp after the await: error ? setError : session ? router.replace
HandlePhoneVerifyOtpEnd(screen, r, res) ==
  /\ r \in Pending(VerifyKind(screen))
  /\ Gateway(res)
  /\ IF res.error \/ res.user = {}
     THEN Receive(r) /\ form' = Settled(r, res, "Failed to verify OTP") /\ UNCHANGED route
     ELSE Replace(r, AfterVerify(screen))
  /\ UNCHANGED <<storeVars, invVars, orderVars, authLoading, profileVars>>

HandlePhoneVerifyOtpDone(screen, r) ==
  \E res \in AuthOutcomes(VerifyOtp(accounts, challenge, r.key, r.arg)) :
    HandlePhoneVerifyOtpEnd(screen, r, res)

(***************************************************************************)
(* ProfileSetupScreen, app/(auth)/profile-setup.tsx                         *)
(***************************************************************************)
SetupTexts == {"", "x"}

SetShopName(v) ==
  /\ route = "profile-setup"
  /\ setup' = [setup EXCEPT !.shopName = v]
  /\ UNCHANGED <<storeVars, user, inflight, invVars, orderVars, authVars, profile, editedProfile, editing, profileLoading>>

SetOwnerName(v) ==
  /\ route = "profile-setup"
  /\ setup' = [setup EXCEPT !.ownerName = v]
  /\ UNCHANGED <<storeVars, user, inflight, invVars, orderVars, authVars, profile, editedProfile, editing, profileLoading>>

SetSetupPhone(v) ==
  /\ route = "profile-setup"
  /\ setup' = [setup EXCEPT !.phone = v]
  /\ UNCHANGED <<storeVars, user, inflight, invVars, orderVars, authVars, profile, editedProfile, editing, profileLoading>>

SetAddress(v) ==
  /\ route = "profile-setup"
  /\ setup' = [setup EXCEPT !.address = v]
  /\ UNCHANGED <<storeVars, user, inflight, invVars, orderVars, authVars, profile, editedProfile, editing, profileLoading>>

SetGstNumber(v) ==
  /\ route = "profile-setup"
  /\ setup' = [setup EXCEPT !.gstNumber = v]
  /\ UNCHANGED <<storeVars, user, inflight, invVars, orderVars, authVars, profile, editedProfile, editing, profileLoading>>

RequiredMissing_IgnoreAddress(f) == f.shopName = "" \/ f.ownerName = "" \/ f.phone = ""
\* !shopName || !ownerName || !phone || !address
RequiredMissing(f) == f.shopName = "" \/ f.ownerName = "" \/ f.phone = "" \/ f.address = ""

\* user.email || ''
UserEmail(u) == u

\* gstNumber || null
GstOrNull(gstNumber) == IF gstNumber = "" THEN {} ELSE {gstNumber}

\* the row handleSetup inserts; is_verified is the column default
NewSeller(u, f) ==
  SellerRow(u, f.shopName, f.ownerName, f.phone, UserEmail(u), f.address, GstOrNull(f.gstNumber))

\* handleSetup up to its await
HandleSetup ==
  /\ route = "profile-setup" /\ ~setup.loading
  /\ IF RequiredMissing(setup)
     THEN /\ setup' = [setup EXCEPT !.error = "Please fill in all required fields"]
          /\ UNCHANGED inflight
     ELSE IF user = {}
     THEN /\ setup' = [setup EXCEPT !.error = "User not authenticated"]
          /\ UNCHANGED inflight
     ELSE /\ CanSend
          /\ setup' = [setup EXCEPT !.error = "", !.loading = TRUE]
          /\ \E u \in user : Send(Req("handleSetup", u, 0, "", "", {NewSeller(u, setup)}))
  /\ UNCHANGED <<storeVars, user, invVars, orderVars, authVars, profile, editedProfile, editing, profileLoading>>

\* the remote call of handleSetup: .from('sellers').insert({...})
HandleSetupCall(r) == Insert(db, r.uid, "sellers", CHOOSE row \in r.snap : TRUE)

\* the message of a store error
StoreMessage(res) == IF res.error THEN "request failed" ELSE ""

\* handleSetup after the await: dbError ? setError : router.replace('/(tabs)')
HandleSetupEnd(r, res) ==
  /\ r \in Pending("handleSetup")
  /\ Receive(r)
  /\ db' = res.db
  /\ IF res.error
     THEN /\ setup' = [setup EXCEPT !.loading = FALSE,
                         !.error = ErrorText(StoreMessage(res), "Failed to create profile")]
          /\ UNCHANGED route
     ELSE /\ setup' = EmptySetup
          /\ route' = "tabs"
  /\ UNCHANGED <<nextId, user, invVars, orderVars, form, authLoading, accounts, challenge, profile, editedProfile, editing, profileLoading>>

HandleSetupDone(r) == \E res \in Outcomes(db, HandleSetupCall(r)) : HandleSetupEnd(r, res)

(***************************************************************************)
(* Initial states: the store as the migration and the ordering process     *)
(* left it, the device signed in as s1 with every screen mounted and       *)
(* nothing loaded yet.                                                     *)
(***************************************************************************)
SellerProductRow(id, s, p, v) ==
  [id |-> id, seller_id |-> s, product_id |-> p, stock_status |-> v]

InitDb(sellerProducts) ==
  [sellers |-> {SellerOf(s) : s \in Sellers},
   master_products |-> {[id |-> p, is_active |-> TRUE] : p \in ProductIds}
                         \cup {[id |-> "p3", is_active |-> FALSE]},
   seller_products |-> sellerProducts,
   orders |-> {[id |-> "o1", seller_id |-> "s1", status |-> "confirmed"],
               [id |-> "o2", seller_id |-> "s2", status |-> "confirmed"]},
   order_items |-> {[id |-> "i1", order_id |-> "o1", product_id |-> "p1", quantity |-> 1],
                    [id |-> "i2", order_id |-> "o2", product_id |-> "p1", quantity |-> 1]},
   notifications |->
     {[id |-> "n1", seller_id |-> "s1", type |-> "new_order", is_read |-> FALSE],
      [id |-> "n2", seller_id |-> "s2", type |-> "new_order", is_read |-> FALSE]}]

InitScreens ==
  /\ inflight = EmptyBag
  /\ products = {}
  /\ catalog = {}
  /\ orders = {}
  /\ selectedOrder = {}
  /\ modalVisible = FALSE
  /\ hist = {}
  /\ form = EmptyForm
  /\ challenge = {}
  /\ setup = EmptySetup
  /\ profile = {}
  /\ editedProfile = {}
  /\ editing = FALSE
  /\ profileLoading = TRUE

\* s1 is signed in and on the tabs
InitClient ==
  /\ InitScreens
  /\ user = {"s1"}
  /\ route = "tabs"
  /\ authLoading = FALSE
  /\ accounts = Sellers

\* s1 holds both products, s2 one
Init ==
  /\ db = InitDb({SellerProductRow(1, "s1", "p1", "available"),
                  SellerProductRow(2, "s1", "p2", "out_of_stock"),
                  SellerProductRow(3, "s2", "p1", "available")})
  /\ nextId = 4
  /\ InitClient

\* s1 holds no product yet, s2 one
InitCatalog ==
  /\ db = InitDb({SellerProductRow(1, "s2", "p1", "available")})
  /\ nextId = 2
  /\ InitClient

(***************************************************************************)
(* Inventory: the my-products screen, and other clients writing            *)
(* seller_products.                                                        *)
(***************************************************************************)
NextInv ==
  \/ LoadProductsTap /\ UNCHANGED hist
  \/ LoadProductsDone /\ UNCHANGED hist
  \/ (\E item \in products : ToggleStockTap(item)) /\ UNCHANGED hist
  \/ (\E r \in BagToSet(inflight) : ToggleStockDone(r)) /\ UNCHANGED hist
  \/ (\E item \in products : RemoveProductTap(item)) /\ UNCHANGED hist
  \/ (\E r \in BagToSet(inflight) : RemoveProductDone(r)) /\ UNCHANGED hist
  \/ (\E uid \in Sellers : ApiUpdate(uid, "seller_products")) /\ UNCHANGED hist
  \/ (\E uid \in Sellers : ApiDelete(uid, "seller_products")) /\ UNCHANGED hist

SpecInv == Init /\ [][NextInv]_vars

(***************************************************************************)
(* Catalog: the catalog screen, and other clients inserting and deleting   *)
(* seller_products.                                                        *)
(***************************************************************************)
NextCatalog ==
  \/ LoadCatalogTap /\ UNCHANGED hist
  \/ LoadCatalogMaster /\ UNCHANGED hist
  \/ LoadCatalogDone /\ UNCHANGED hist
  \/ (\E item \in catalog : AddProductTap(item)) /\ UNCHANGED hist
  \/ (\E r \in BagToSet(inflight) : AddProductDone(r)) /\ UNCHANGED hist
  \/ (\E uid \in Sellers : ApiInsert(uid, "seller_products")) /\ UNCHANGED hist
  \/ (\E uid \in Sellers : ApiDelete(uid, "seller_products")) /\ UNCHANGED hist

SpecCatalog == InitCatalog /\ [][NextCatalog]_vars

(***************************************************************************)
(* Orders: the orders screen alone, and with other clients writing orders. *)
(***************************************************************************)
NextOrders ==
  \/ LoadOrdersTap /\ UNCHANGED hist
  \/ LoadOrdersDone /\ UNCHANGED hist
  \/ (\E item \in orders : OpenOrder(item)) /\ UNCHANGED hist
  \/ CloseModal /\ UNCHANGED hist
  \/ (\E newStatus \in STATUS_OPTIONS : UpdateOrderStatusTap(newStatus)) /\ UNCHANGED hist
  \/ (\E r \in BagToSet(inflight) : UpdateOrderStatusDone(r)) /\ UNCHANGED hist

SpecOrders == Init /\ [][NextOrders]_vars

NextOrdersApi ==
  \/ NextOrders
  \/ (\E uid \in Sellers : ApiInsert(uid, "orders")) /\ UNCHANGED hist
  \/ (\E uid \in Sellers : ApiUpdate(uid, "orders")) /\ UNCHANGED hist
  \/ (\E uid \in Sellers : ApiDelete(uid, "orders")) /\ UNCHANGED hist

SpecOrdersApi == Init /\ [][NextOrdersApi]_vars

(***************************************************************************)
(* Stock: adding products in the catalog and toggling them in my products, *)
(* with other clients updating seller_products.                            *)
(***************************************************************************)
NextStock ==
  \/ LoadCatalogTap /\ UNCHANGED hist
  \/ LoadCatalogMaster /\ UNCHANGED hist
  \/ LoadCatalogDone /\ UNCHANGED hist
  \/ (\E item \in catalog : AddProductTap(item)) /\ UNCHANGED hist
  \/ (\E r \in BagToSet(inflight) : AddProductDone(r)) /\ UNCHANGED hist
  \/ LoadProductsTap /\ UNCHANGED hist
  \/ LoadProductsDone /\ UNCHANGED hist
  \/ (\E item \in products : ToggleStockTap(item)) /\ UNCHANGED hist
  \/ (\E r \in BagToSet(inflight) : ToggleStockDone(r)) /\ UNCHANGED hist
  \/ (\E uid \in Sellers : ApiUpdate(uid, "seller_products")) /\ UNCHANGED hist

SpecStock == InitCatalog /\ [][NextStock]_vars

(***************************************************************************)
(* Row level security: any client, with any identity's session, sending    *)
(* any statement to any table.                                              *)
(***************************************************************************)
\* s1 and s2 hold one product each
InitRls ==
  /\ db = InitDb({SellerProductRow(1, "s1", "p1", "available"),
                  SellerProductRow(2, "s2", "p1", "available")})
  /\ nextId = 3
  /\ InitClient

NextRls ==
  \/ (\E uid \in Identities, t \in Tables : ApiInsert(uid, t)) /\ UNCHANGED hist
  \/ (\E uid \in Identities, t \in Tables : ApiUpdate(uid, t)) /\ UNCHANGED hist
  \/ (\E uid \in Identities, t \in Tables : ApiDelete(uid, t)) /\ UNCHANGED hist

SpecRls == InitRls /\ [][NextRls]_vars

(***************************************************************************)
(* Toggle: the my-products screen with its toggles recorded.  hist is empty *)
(* until the first toggle, then holds one record: the row toggled, the      *)
(* status it had in the list and the store at that moment, how many times   *)
(* the switch was used, how many calls have completed, and whether every    *)
(* toggle so far was of that row and succeeded.                             *)
(***************************************************************************)
HistTap(item) ==
  hist' = IF hist = {}
          THEN {[row |-> item.id, base |-> item.stock_status, taps |-> 1, done |-> 0,
                 ok |-> \E x \in db.seller_products : SellerProductView(x) = item]}
          ELSE {[h EXCEPT !.taps = IF h.taps < MaxTaps THEN h.taps + 1 ELSE h.taps,
                          !.ok = h.ok /\ h.row = item.id /\ h.taps < MaxTaps] : h \in hist}

HistDone(r, res) ==
  hist' = {[h EXCEPT !.done = IF h.done < MaxTaps THEN h.done + 1 ELSE h.done,
                     !.ok = h.ok /\ ~res.error] : h \in hist}

\* a removal ends the record of the toggles
HistRemove == hist' = {[h EXCEPT !.ok = FALSE] : h \in hist}

NextToggle ==
  \/ LoadProductsTap /\ UNCHANGED hist
  \/ LoadProductsDone /\ UNCHANGED hist
  \/ \E item \in products : ToggleStockTap(item) /\ HistTap(item)
  \/ \E r \in BagToSet(inflight) : \E res \in Outcomes(db, ToggleStockCall(r)) :
       ToggleStockEnd(r, res) /\ HistDone(r, res)
  \/ \E item \in products : RemoveProductTap(item) /\ HistRemove
  \/ (\E r \in BagToSet(inflight) : RemoveProductDone(r)) /\ UNCHANGED hist

SpecToggle == Init /\ [][NextToggle]_vars

(***************************************************************************)
(* Email: app start, the index screen, and the login and signup screens in  *)
(* email mode.                                                              *)
(***************************************************************************)
\* the app starts on the index screen; s3 is registered or not
InitEmail ==
  /\ db = InitDb({SellerProductRow(1, "s1", "p1", "available")})
  /\ nextId = 2
  /\ InitScreens
  /\ user = {}
  /\ route = "index"
  /\ authLoading = TRUE
  /\ accounts \in {Sellers, Identities}

NextEmail ==
  \/ AuthReady /\ UNCHANGED hist
  \/ CheckProfile /\ UNCHANGED hist
  \/ (\E r \in Pending("checkProfile") : CheckProfileDone(r)) /\ UNCHANGED hist
  \/ (\E v \in Emails : SetEmail(v)) /\ UNCHANGED hist
  \/ (\E v \in Passwords : SetPassword(v)) /\ UNCHANGED hist
  \/ (\E v \in Passwords : SetConfirmPassword(v)) /\ UNCHANGED hist
  \/ GoToSignup /\ UNCHANGED hist
  \/ GoToLogin /\ UNCHANGED hist
  \/ HandleEmailLogin /\ UNCHANGED hist
  \/ (\E r \in Pending("handleEmailLogin") : HandleEmailLoginDone(r)) /\ UNCHANGED hist
  \/ HandleEmailSignup /\ UNCHANGED hist
  \/ (\E r \in Pending("handleEmailSignup") : HandleEmailSignupDone(r)) /\ UNCHANGED hist

SpecEmail == InitEmail /\ [][NextEmail]_vars

(***************************************************************************)
(* Phone: the login and signup screens in phone mode.                       *)
(***************************************************************************)
\* nobody is signed in and the login screen is shown
InitPhone ==
  /\ db = InitDb({SellerProductRow(1, "s1", "p1", "available")})
  /\ nextId = 2
  /\ InitScreens
  /\ user = {}
  /\ route = "login"
  /\ authLoading = FALSE
  /\ accounts \in {Sellers, Identities}

NextPhone ==
  \/ (\E m \in {"email", "phone"} : SetMode(m)) /\ UNCHANGED hist
  \/ (\E v \in Phones : SetPhone(v)) /\ UNCHANGED hist
  \/ (\E v \in Otps : SetOtp(v)) /\ UNCHANGED hist
  \/ ChangePhoneNumber /\ UNCHANGED hist
  \/ GoToSignup /\ UNCHANGED hist
  \/ GoToLogin /\ UNCHANGED hist
  \/ HandlePhoneSendOtp /\ UNCHANGED hist
  \/ (\E r \in Pending("handlePhoneSendOtp") : HandlePhoneSendOtpDone(r)) /\ UNCHANGED hist
  \/ (\E screen \in {"login", "signup"} : HandlePhoneVerifyOtp(screen)) /\ UNCHANGED hist
  \/ (\E screen \in {"login", "signup"} : \E r \in Pending(VerifyKind(screen)) :
        HandlePhoneVerifyOtpDone(screen, r)) /\ UNCHANGED hist

SpecPhone == InitPhone /\ [][NextPhone]_vars

(***************************************************************************)
(* Overlap: the my-products screen after its list was loaded; toggles and   *)
(* removals of different rows overlap, and every call reaches the store.    *)
(***************************************************************************)
\* s1 holds three products, s2 one; the list shows s1's three rows
InitOverlap ==
  /\ db = InitDb({SellerProductRow(1, "s1", "p1", "available"),
                  SellerProductRow(2, "s1", "p2", "out_of_stock"),
                  SellerProductRow(3, "s1", "p3", "available"),
                  SellerProductRow(4, "s2", "p1", "available")})
  /\ nextId = 5
  /\ user = {"s1"}
  /\ route = "tabs"
  /\ authLoading = FALSE
  /\ accounts = Sellers
  /\ inflight = EmptyBag
  /\ products = {SellerProductView(x) : x \in {y \in db.seller_products : y.seller_id = "s1"}}
  /\ catalog = {}
  /\ orders = {}
  /\ selectedOrder = {}
  /\ modalVisible = FALSE
  /\ hist = {}
  /\ form = EmptyForm
  /\ challenge = {}
  /\ setup = EmptySetup
  /\ profile = {}
  /\ editedProfile = {}
  /\ editing = FALSE
  /\ profileLoading = TRUE

\* no call for the row is in flight
RowIdle(id) == \A r \in BagToSet(inflight) : r.row # id

NextOverlap ==
  \/ (\E item \in products : RowIdle(item.id) /\ ToggleStockTap(item)) /\ UNCHANGED hist
  \/ (\E r \in Pending("toggleStock") : ToggleStockEnd(r, ToggleStockCall(r)))
       /\ UNCHANGED hist
  \/ (\E item \in products : RowIdle(item.id) /\ RemoveProductTap(item)) /\ UNCHANGED hist
  \/ (\E r \in Pending("removeProduct") : RemoveProductEnd(r, RemoveProductCall(r)))
       /\ UNCHANGED hist

SpecOverlap == InitOverlap /\ [][NextOverlap]_vars

(***************************************************************************)
(* Adds: the catalog screen after its list was loaded, with no reload;      *)
(* s1's other device removes products.                                      *)
(***************************************************************************)
\* s1 holds no product; the list shows the active products, none added
InitAdds ==
  /\ db = InitDb({SellerProductRow(1, "s2", "p1", "available")})
  /\ nextId = 2
  /\ user = {"s1"}
  /\ route = "tabs"
  /\ authLoading = FALSE
  /\ accounts = Sellers
  /\ inflight = EmptyBag
  /\ products = {}
  /\ catalog = ProductsWithStatus(
                 Ids(Select(db, "s1", "master_products", "is_active", TRUE).data), {})
  /\ orders = {}
  /\ selectedOrder = {}
  /\ modalVisible = FALSE
  /\ hist = {}
  /\ form = EmptyForm
  /\ challenge = {}
  /\ setup = EmptySetup
  /\ profile = {}
  /\ editedProfile = {}
  /\ editing = FALSE
  /\ profileLoading = TRUE

NextAdds ==
  \/ (\E item \in catalog : AddProductTap(item)) /\ UNCHANGED hist
  \/ (\E r \in Pending("addProduct") : AddProductDone(r)) /\ UNCHANGED hist
  \/ (\E uid \in user : ApiDelete(uid, "seller_products")) /\ UNCHANGED hist

SpecAdds == InitAdds /\ [][NextAdds]_vars

(***************************************************************************)
(* Otp: the login and signup screens in phone mode, with the phone numbers  *)
(* recorded for which signInWithPhone has succeeded (hist).                 *)
(***************************************************************************)
HistSent(r, res) == hist' = IF res.error THEN hist ELSE hist \cup {r.key}

NextOtp ==
  \/ (\E m \in {"email", "phone"} : SetMode(m)) /\ UNCHANGED hist
  \/ (\E v \in Phones : SetPhone(v)) /\ UNCHANGED hist
  \/ (\E v \in Otps : SetOtp(v)) /\ UNCHANGED hist
  \/ ChangePhoneNumber /\ UNCHANGED hist
  \/ GoToSignup /\ UNCHANGED hist
  \/ GoToLogin /\ UNCHANGED hist
  \/ HandlePhoneSendOtp /\ UNCHANGED hist
  \/ \E r \in Pending("handlePhoneSendOtp") :
       \E res \in AuthOutcomes(SignInWithPhone(accounts, challenge, r.key)) :
         HandlePhoneSendOtpEnd(r, res) /\ HistSent(r, res)
  \/ (\E screen \in {"login", "signup"} : HandlePhoneVerifyOtp(screen)) /\ UNCHANGED hist
  \/ (\E screen \in {"login", "signup"} : \E r \in Pending(VerifyKind(screen)) :
        HandlePhoneVerifyOtpDone(screen, r)) /\ UNCHANGED hist

SpecOtp == InitPhone /\ [][NextOtp]_vars

(***************************************************************************)
(* Auth: the login and signup screens in both modes, with the registered    *)
(* password and one wrong password typed.                                   *)
(***************************************************************************)
AuthPasswords == {RegisteredPassword, Chars(MinPasswordLength - 1, "a") \o <<"b">>}

\* the login screen is shown; s3 is not registered
InitAuth ==
  /\ db = InitDb({SellerProductRow(1, "s1", "p1", "available")})
  /\ nextId = 2
  /\ InitScreens
  /\ user = {}
  /\ route = "login"
  /\ authLoading = FALSE
  /\ accounts = Sellers

NextAuth ==
  \/ (\E m \in {"email", "phone"} : SetMode(m)) /\ UNCHANGED hist
  \/ (\E v \in Emails \ {<<>>} : SetEmail(v)) /\ UNCHANGED hist
  \/ (\E v \in AuthPasswords : SetPassword(v)) /\ UNCHANGED hist
  \/ SetConfirmPassword(RegisteredPassword) /\ UNCHANGED hist
  \/ SetPhone(<<"+", "1">>) /\ UNCHANGED hist
  \/ (\E v \in Otps \ {<<>>} : SetOtp(v)) /\ UNCHANGED hist
  \/ GoToSignup /\ UNCHANGED hist
  \/ GoToLogin /\ UNCHANGED hist
  \/ HandleEmailLogin /\ UNCHANGED hist
  \/ (\E r \in Pending("handleEmailLogin") : HandleEmailLoginDone(r)) /\ UNCHANGED hist
  \/ HandleEmailSignup /\ UNCHANGED hist
  \/ (\E r \in Pending("handleEmailSignup") : HandleEmailSignupDone(r)) /\ UNCHANGED hist
  \/ HandlePhoneSendOtp /\ UNCHANGED hist
  \/ (\E r \in Pending("handlePhoneSendOtp") : HandlePhoneSendOtpDone(r)) /\ UNCHANGED hist
  \/ (\E screen \in {"login", "signup"} : HandlePhoneVerifyOtp(screen)) /\ UNCHANGED hist
  \/ (\E screen \in {"login", "signup"} : \E r \in Pending(VerifyKind(screen)) :
        HandlePhoneVerifyOtpDone(screen, r)) /\ UNCHANGED hist

SpecAuth == InitAuth /\ [][NextAuth]_vars

(***************************************************************************)
(* Setup: the profile setup screen, and other clients inserting sellers.    *)
(***************************************************************************)
\* after signup (s3, no sellers row) or after a lookup that found no row (s1)
InitSetup ==
  /\ db = InitDb({SellerProductRow(1, "s1", "p1", "available")})
  /\ nextId = 2
  /\ InitScreens
  /\ user \in {{"s1"}, {"s3"}}
  /\ route = "profile-setup"
  /\ authLoading = FALSE
  /\ accounts = Identities

NextSetup ==
  \/ (\E v \in SetupTexts : SetShopName(v)) /\ UNCHANGED hist
  \/ (\E v \in SetupTexts : SetOwnerName(v)) /\ UNCHANGED hist
  \/ (\E v \in SetupTexts : SetSetupPhone(v)) /\ UNCHANGED hist
  \/ (\E v \in SetupTexts : SetAddress(v)) /\ UNCHANGED hist
  \/ (\E v \in SetupTexts : SetGstNumber(v)) /\ UNCHANGED hist
  \/ HandleSetup /\ UNCHANGED hist
  \/ (\E r \in Pending("handleSetup") : HandleSetupDone(r)) /\ UNCHANGED hist
  \/ (\E uid \in Identities : ApiInsert(uid, "sellers")) /\ UNCHANGED hist

SpecSetup == InitSetup /\ [][NextSetup]_vars

(***************************************************************************)
(* ProfileScreen, app/(tabs)/profile.tsx                                    *)
(***************************************************************************)
\* what can be typed into an input of the edit form
EditTexts == {"x"}

\* the columns the edit form has an input for
EditableFields == {"shop_name", "owner_name", "phone", "address", "gst_number"}

\* if (loading || !profile) the screen shows "Loading..." and nothing else
ProfileVisible == ~profileLoading /\ profile # {}

\* useEffect(() => { loadProfile() }, [user]): if (!user) return; the select
LoadProfileTap ==
  /\ profileLoading
  /\ Pending("loadProfile") = {}
  /\ user # {}
  /\ CanSend
  /\ \E uid \in user : Send(Req("loadProfile", uid, 0, "", "", {}))
  /\ UNCHANGED <<storeVars, user, invVars, orderVars, authVars, profileVars>>

LoadProfileCall(r) == Select(db, r.uid, "sellers", "id", r.uid)

\* if (data) { setProfile(data); setEditedProfile(data) }; finally setLoading(false)
LoadProfileEnd(r, res) ==
  /\ r \in Pending("loadProfile")
  /\ Receive(r)
  /\ profile' = IF res.data # {} THEN res.data ELSE profile
  /\ editedProfile' = IF res.data # {} THEN res.data ELSE editedProfile
  /\ profileLoading' = FALSE
  /\ UNCHANGED <<storeVars, user, invVars, orderVars, authVars, setup, editing>>

LoadProfileDone(r) == \E res \in Outcomes(db, LoadProfileCall(r)) : LoadProfileEnd(r, res)

\* the edit button, shown when not editing: setEditing(true)
StartEditing ==
  /\ ProfileVisible
  /\ ~editing
  /\ editing' = TRUE
  /\ UNCHANGED <<storeVars, user, inflight, invVars, orderVars, authVars,
                 setup, profile, editedProfile, profileLoading>>

\* the value an input's text becomes in the row: gst_number is nullable
FieldValue(field, text) == IF field = "gst_number" THEN {text} ELSE text

\* an input of the edit form: setEditedProfile({ ...editedProfile, field: text })
SetProfileField(field, text) ==
  /\ ProfileVisible
  /\ editing
  /\ editedProfile' = {[e EXCEPT ![field] = FieldValue(field, text)] : e \in editedProfile}
  /\ UNCHANGED <<storeVars, user, inflight, invVars, orderVars, authVars,
                 setup, profile, editing, profileLoading>>

\* the columns handleSave sends, with is_verified added
SavePatch_Verified(e) ==
  [shop_name |-> e.shop_name, owner_name |-> e.owner_name, phone |-> e.phone,
   address |-> e.address, gst_number |-> e.gst_number, is_verified |-> TRUE]

\* the columns handleSave sends
SavePatch(e) ==
  [shop_name |-> e.shop_name, owner_name |-> e.owner_name, phone |-> e.phone,
   address |-> e.address, gst_number |-> e.gst_number]

\* the save button, shown while editing: if (!user || !editedProfile) return;
\* the request carries the editedProfile of the render the button was in
HandleSave ==
  /\ ProfileVisible
  /\ editing
  /\ user # {}
  /\ editedProfile # {}
  /\ CanSend
  /\ \E uid \in user : Send(Req("handleSave", uid, 0, "", "", editedProfile))
  /\ UNCHANGED <<storeVars, user, invVars, orderVars, authVars, profileVars>>

HandleSaveCall(r) ==
  Update(db, r.uid, "sellers", r.uid, SavePatch(CHOOSE e \in r.snap : TRUE))

\* if (!error) { setProfile(editedProfile); setEditing(false) }
HandleSaveEnd(r, res) ==
  /\ r \in Pending("handleSave")
  /\ Receive(r)
  /\ db' = res.db
  /\ profile' = IF res.error THEN profile ELSE r.snap
  /\ editing' = IF res.error THEN editing ELSE FALSE
  /\ UNCHANGED <<nextId, user, invVars, orderVars, authVars,
                 setup, editedProfile, profileLoading>>

HandleSaveDone(r) == \E res \in Outcomes(db, HandleSaveCall(r)) : HandleSaveEnd(r, res)

(***************************************************************************)
(* Profile: the profile screen of s1, and other clients updating sellers.   *)
(***************************************************************************)
InitProfile ==
  /\ db = InitDb({SellerProductRow(1, "s1", "p1", "available")})
  /\ nextId = 2
  /\ InitClient

NextProfile ==
  \/ LoadProfileTap /\ UNCHANGED hist
  \/ (\E r \in Pending("loadProfile") : LoadProfileDone(r)) /\ UNCHANGED hist
  \/ StartEditing /\ UNCHANGED hist
  \/ (\E field \in EditableFields, text \in EditTexts : SetProfileField(field, text))
       /\ UNCHANGED hist
  \/ HandleSave /\ UNCHANGED hist
  \/ (\E r \in Pending("handleSave") : HandleSaveDone(r)) /\ UNCHANGED hist
  \/ (\E uid \in Sellers : ApiUpdate(uid, "sellers")) /\ UNCHANGED hist

SpecProfile == InitProfile /\ [][NextProfile]_vars

(***************************************************************************)
(* ProfileLive: the profile screen of a signed-in identity with or without  *)
(* a sellers row; the load is started and every request is answered.        *)
(***************************************************************************)
\* s1 has a sellers row, s3 has none (it signed in on the login screen)
InitProfileLive ==
  /\ db = InitDb({SellerProductRow(1, "s1", "p1", "available")})
  /\ nextId = 2
  /\ InitScreens
  /\ user \in {{"s1"}, {"s3"}}
  /\ route = "tabs"
  /\ authLoading = FALSE
  /\ accounts = Identities

SpecProfileLive ==
  /\ InitProfileLive
  /\ [][NextProfile]_vars
  /\ WF_vars(LoadProfileTap /\ UNCHANGED hist)
  /\ WF_vars((\E r \in Pending("loadProfile") : LoadProfileDone(r)) /\ UNCHANGED hist)
  /\ WF_vars((\E r \in Pending("handleSave") : HandleSaveDone(r)) /\ UNCHANGED hist)

(***************************************************************************)
(* Ownership: the owner reference of a row in store d, and what a statement *)
(* that took the store from d to e affected.                                *)
(***************************************************************************)
OwnedBy(d, t, row, uid) ==
  CASE t = "sellers" -> row.id = uid
    [] t \in {"seller_products", "orders", "notifications"} -> row.seller_id = uid
    [] t = "order_items" -> \E o \in d.orders : o.id = row.order_id /\ o.seller_id = uid
    [] OTHER -> FALSE

\* every row removed, written or added between d and e is owned by uid
AffectsOnlyOwn(d, e, uid) ==
  \A t \in Tables :
    /\ \A row \in d[t] \ e[t] : OwnedBy(d, t, row, uid)
    /\ \A row \in e[t] \ d[t] : OwnedBy(e, t, row, uid)

(***************************************************************************)
(* Claims.                                                                 *)
(***************************************************************************)

\* C1: ownership isolation. In every state of the store, for every identity S
\* and each of sellers, seller_products, orders, order_items and
\* notifications: a select under S's session returns only rows owned by S, and
\* an insert, update or delete under S's session affects only rows owned by S.
\* The same for the remote calls of toggleStock, removeProduct and
\* updateOrderStatus under S's session, aimed at any row id.
C1_OwnershipIsolation ==
  \A uid \in Identities :
    /\ \A t \in Tables \ {"master_products"} :
         /\ \A row \in SelectAll(db, uid, t).data : OwnedBy(db, t, row, uid)
         /\ \A row \in ApiRows(t, nextId) : AffectsOnlyOwn(db, Insert(db, uid, t, row).db, uid)
         /\ \A row \in db[t], patch \in ApiPatches(t) :
              AffectsOnlyOwn(db, Update(db, uid, t, row.id, patch).db, uid)
         /\ \A row \in db[t] : AffectsOnlyOwn(db, Delete(db, uid, t, row.id).db, uid)
    /\ \A row \in db.seller_products :
         /\ AffectsOnlyOwn(db, ToggleStockCall(
              Req("toggleStock", uid, row.id, "", NewStatus(row.stock_status), {})).db, uid)
         /\ AffectsOnlyOwn(db, RemoveProductCall(
              Req("removeProduct", uid, row.id, "", "", {})).db, uid)
    /\ \A row \in db.orders, newStatus \in STATUS_OPTIONS :
         AffectsOnlyOwn(db, UpdateOrderStatusCall(
           Req("updateOrderStatus", uid, 0, row.id, newStatus, {})).db, uid)

\* C1 witness: statements under s1's, s2's and s3's sessions have written the
\* store (s3 created its sellers row, s1 changed its product and its order, s2
\* deleted its product), s1 still sees rows of its own in seller_products and
\* orders, and rows of another seller are there for it not to see.
C1_Witness ==
  /\ \E row \in db.sellers : row.id = "s3"
  /\ \E row \in db.seller_products : row.seller_id = "s1" /\ row.stock_status = "out_of_stock"
  /\ \E row \in db.orders : row.seller_id = "s1" /\ row.status = "delivered"
  /\ \A row \in db.seller_products : row.id # 2
  /\ \E row \in db.seller_products : row.seller_id # "s1"
  /\ SelectAll(db, "s1", "seller_products").data # {}
  /\ SelectAll(db, "s1", "seller_products").data # db.seller_products
  /\ SelectAll(db, "s1", "orders").data # db.orders

\* C2: for every seller S and product P the store holds at most one
\* seller_products row with (seller_id = S, product_id = P), whatever
\* addProduct calls were made, a double tap included.
C2_UniqueSellerProduct ==
  \A r1, r2 \in db.seller_products :
    (r1.seller_id = r2.seller_id /\ r1.product_id = r2.product_id) => r1 = r2

\* C2 witness: s1 tapped add twice for one product before either call completed,
\* the first call has inserted the row and the second is still to be executed.
C2_Witness ==
  \E r \in Pending("addProduct") :
    /\ r.uid = "s1"
    /\ \E x \in r.snap : x.id = r.key /\ ~x.is_added
    /\ \E row \in db.seller_products : row.seller_id = "s1" /\ row.product_id = r.key

\* C3: a successful login on the login screen of an identity that has no
\* sellers row is routed to profile setup and not to the tabs.
C3_LoginWithoutProfileGoesToSetup ==
  [][\A r \in Pending("handleEmailLogin") :
       LET res == SignIn(accounts, challenge, r.key, r.arg)
       IN (/\ HandleEmailLoginEnd(r, res)
           /\ ~res.error
           /\ \A u \in res.user : \A row \in db.sellers : row.id # u) =>
             route' = "profile-setup"]_vars

\* C4: every orders row of the store, every entry of the orders list and the
\* selected order have a status among confirmed, packed, shipped, delivered,
\* cancelled.
C4_OrderStatusInEnum ==
  LET Five == {"confirmed", "packed", "shipped", "delivered", "cancelled"}
  IN /\ \A o \in db.orders : o.status \in Five
     /\ \A o \in orders : o.status \in Five
     /\ \A o \in selectedOrder : o.status \in Five

\* C4 witness: updateOrderStatus has stored a new status for s1's order and the
\* list shows it.
C4_Witness ==
  /\ \E o \in db.orders : o.id = "o1" /\ o.status = "shipped"
  /\ \E o \in orders : o.id = "o1" /\ o.status = "shipped"

\* C7: every seller_products row of the store, and every entry of the
\* my-products list, has stock_status available or out_of_stock.
C7_StockStatusInEnum ==
  /\ \A r \in db.seller_products : r.stock_status \in {"available", "out_of_stock"}
  /\ \A p \in products : p.stock_status \in {"available", "out_of_stock"}

\* C7 witness: s1 added a product (stored as available) and toggled it: the
\* store and the list hold it as out_of_stock.
C7_Witness ==
  \E r \in db.seller_products :
    /\ r.seller_id = "s1" /\ r.product_id = "p2" /\ r.stock_status = "out_of_stock"
    /\ SellerProductView(r) \in products

\* C5: an order's status only moves forward along confirmed, packed, shipped,
\* delivered, or to cancelled from a state that is not terminal: a stored
\* status that changes was neither delivered nor cancelled, and the new one is
\* cancelled or later in the sequence.
C5_StatusMovesForward ==
  [][LET Rank(st) == CASE st = "confirmed" -> 0 [] st = "packed" -> 1
                       [] st = "shipped" -> 2 [] st = "delivered" -> 3 [] OTHER -> 4
         Allowed(from, to) ==
           /\ from \notin {"delivered", "cancelled"}
           /\ to = "cancelled" \/ Rank(to) > Rank(from)
     IN \A o \in db.orders : \A n \in db'.orders :
          (n.id = o.id /\ n.status # o.status) => Allowed(o.status, n.status)]_vars

\* C6: when updateOrderStatus(order, t) succeeds, the entry of the orders list
\* and the selected order of the detail view show t; when it fails, the stored
\* rows, the list and the selected order are as before.
C6_UpdateReflected ==
  [][\A r \in Pending("updateOrderStatus") :
       /\ (UpdateOrderStatusEnd(r, UpdateOrderStatusCall(r)) /\ ~UpdateOrderStatusCall(r).error) =>
            /\ \A o \in orders' : o.id = r.key => o.status = r.arg
            /\ \A o \in selectedOrder' : o.id = r.key => o.status = r.arg
       /\ UpdateOrderStatusEnd(r, NetworkError(db)) =>
            /\ db' = db
            /\ orders' = orders
            /\ selectedOrder' = selectedOrder]_vars

\* C8: toggling the stock status of one product twice returns the stored
\* stock_status and the status of the list entry to the original value, also
\* when the second toggle is triggered before the first has completed.
C8_DoubleToggleRestores ==
  \A h \in hist :
    (h.ok /\ h.taps = 2 /\ h.done = 2) =>
      /\ \A x \in db.seller_products : x.id = h.row => x.stock_status = h.base
      /\ \A p \in products : p.id = h.row => p.stock_status = h.base

\* C9: handleEmailSignup with a password of fewer than 6 characters sends no
\* signUp, opens no session, registers nothing and stays on the signup screen,
\* whatever the email and the confirmation are; no signUp in flight carries
\* such a password.
C9_ShortPasswordNeverSignsUp ==
  [][/\ \A r \in Pending("handleEmailSignup") : Len(r.arg) >= 6
     /\ (HandleEmailSignup /\ Len(form.password) < 6) =>
          /\ inflight' = inflight
          /\ user' = user
          /\ accounts' = accounts
          /\ route' = "signup"]_vars

\* C9 witness: the signup button was pressed with every field filled, password
\* and confirmation equal and five characters long; the screen shows the
\* message, nobody is signed in and nothing is in flight.
C9_Witness ==
  /\ route = "signup"
  /\ form.error = "Password must be at least 6 characters"
  /\ form.email # <<>>
  /\ Len(form.password) = 5
  /\ form.confirmPassword = form.password
  /\ user = {}
  /\ inflight = EmptyBag

\* C10: handleEmailSignup with a password and a confirmation that differ sends
\* no signUp, opens no session, registers nothing and stays on the signup
\* screen.
C10_MismatchNeverSignsUp ==
  [][(HandleEmailSignup /\ form.password # form.confirmPassword) =>
       /\ inflight' = inflight
       /\ user' = user
       /\ accounts' = accounts
       /\ route' = "signup"]_vars

\* C10 witness: the signup button was pressed with every field filled, both
\* passwords six characters long and different; the screen shows the message,
\* nobody is signed in and nothing is in flight.
C10_Witness ==
  /\ route = "signup"
  /\ form.error = "Passwords do not match"
  /\ form.email # <<>>
  /\ Len(form.password) = 6
  /\ Len(form.confirmPassword) = 6
  /\ form.confirmPassword # form.password
  /\ user = {}
  /\ inflight = EmptyBag

\* C11: on the login and on the signup screen, handlePhoneSendOtp with a phone
\* number that does not start with "+" sets an error message and sends no
\* signInWithPhone: nothing is put in flight, loading stays false and otpSent
\* stays false.
C11_PhoneWithoutPlusRejected ==
  [][(HandlePhoneSendOtp /\ (form.phone = <<>> \/ form.phone[1] # "+")) =>
       /\ inflight' = inflight
       /\ challenge' = challenge
       /\ form'.error # ""
       /\ form'.loading = FALSE
       /\ form'.otpSent = FALSE
       /\ route' = route]_vars

\* C11 witness: on the signup screen Send OTP was pressed for the number "1";
\* the screen shows the message and nothing is in flight.
C11_Witness ==
  /\ route = "signup"
  /\ form.mode = "phone"
  /\ form.phone = <<"1">>
  /\ form.error = "Phone number must include country code (e.g., +1234567890)"
  /\ ~form.loading
  /\ ~form.otpSent
  /\ inflight = EmptyBag

\* C12: when loadProducts of the catalog screen completes, the list holds
\* exactly the active master_products rows, and a product is marked is_added
\* if and only if the signed-in seller has a seller_products row for it.
C12_CatalogMarksAdded ==
  [][LoadCatalogDone =>
       \A u \in user :
         catalog' = {[id |-> p.id,
                      is_added |-> \E row \in db'.seller_products :
                                     row.seller_id = u /\ row.product_id = p.id] :
                     p \in {m \in db'.master_products : m.is_active}}]_vars

\* C13: in every state of the store and for every identity, no insert, update
\* or delete under its session changes master_products, nor does the remote
\* call of addProduct, toggleStock, removeProduct or updateOrderStatus; a
\* select returns only master_products rows whose is_active is true; and the
\* table is as it was at the start.
C13_MasterProductsReadOnly ==
  /\ db.master_products = InitDb({}).master_products
  /\ \A uid \in Identities :
       /\ \A row \in SelectAll(db, uid, "master_products").data : row.is_active
       /\ \A row \in ApiRows("master_products", nextId) :
            Insert(db, uid, "master_products", row).db = db
       /\ \A row \in db.master_products, patch \in ApiPatches("master_products") :
            Update(db, uid, "master_products", row.id, patch).db = db
       /\ \A row \in db.master_products : Delete(db, uid, "master_products", row.id).db = db
       /\ \A p \in Ids(db.master_products) :
            AddProductCall(Req("addProduct", uid, 0, p, "", {})).db.master_products
              = db.master_products
       /\ \A row \in db.seller_products :
            /\ ToggleStockCall(Req("toggleStock", uid, row.id, "",
                 NewStatus(row.stock_status), {})).db.master_products = db.master_products
            /\ RemoveProductCall(Req("removeProduct", uid, row.id, "", "", {})).db.master_products
                 = db.master_products

\* C13 witness: sellers have written the store (s3 created its sellers row, a
\* product row was added), the table holds an active and an inactive row, and
\* s1's select of master_products returns some rows but not the inactive one.
C13_Witness ==
  /\ \E row \in db.sellers : row.id = "s3"
  /\ \E row \in db.seller_products : row.id = 3
  /\ \E m \in db.master_products : ~m.is_active
  /\ SelectAll(db, "s1", "master_products").data # {}
  /\ SelectAll(db, "s1", "master_products").data # db.master_products

\* C14: the store never holds two sellers rows for one identity; a
\* handleSetup call for an identity that already has a sellers row ends with
\* an error message, with the store as it was and without navigating.
C14_OneSellerRowPerIdentity ==
  [][/\ \A r1, r2 \in db.sellers : r1.id = r2.id => r1 = r2
     /\ \A r \in Pending("handleSetup") :
          (/\ \E row \in db.sellers : row.id = r.uid
           /\ \E res \in Outcomes(db, HandleSetupCall(r)) : HandleSetupEnd(r, res)) =>
            /\ db' = db
            /\ setup'.error # ""
            /\ route' = "profile-setup"]_vars

\* C14 witness: s1, who has a sellers row, submitted the profile setup form
\* with every field filled; the call has completed, the screen shows an error
\* and s1's row is the one it had.
C14_Witness ==
  /\ user = {"s1"}
  /\ route = "profile-setup"
  /\ ~RequiredMissing(setup)
  /\ setup.error = "request failed"
  /\ ~setup.loading
  /\ inflight = EmptyBag
  /\ SellerOf("s1") \in db.sellers

\* C15: on the index screen nothing navigates while AuthContext is loading;
\* without a session checkProfile navigates to login; with a session its
\* lookup of the sellers row of the session identity ends on the tabs when the
\* row is present and on profile setup when it is absent.
C15_IndexBootstrap ==
  [][/\ (authLoading /\ route = "index") => route' = "index"
     /\ (CheckProfile /\ user = {}) => route' = "login"
     /\ \A r \in Pending("checkProfile") :
          (\E res \in Outcomes(db, CheckProfileCall(r)) : CheckProfileEnd(r, res)) =>
            route' = IF \E row \in db.sellers : row.id = r.uid
                     THEN "tabs" ELSE "profile-setup"]_vars

\* C16: handleSetup with shop name, owner name, phone or address empty sends
\* no insert, leaves the store as it was and does not navigate. With the four
\* filled and the GST number empty, the insert is sent with gst_number null,
\* and when the store accepts it that row is what it holds.
C16_RequiredFieldsChecked ==
  [][/\ (HandleSetup /\ (setup.shopName = "" \/ setup.ownerName = ""
                           \/ setup.phone = "" \/ setup.address = "")) =>
          /\ inflight' = inflight
          /\ db' = db
          /\ route' = "profile-setup"
     /\ (HandleSetup /\ setup.shopName # "" /\ setup.ownerName # "" /\ setup.phone # ""
           /\ setup.address # "" /\ setup.gstNumber = "") =>
          \E r \in BagToSet(inflight') :
            /\ r.kind = "handleSetup"
            /\ r \notin BagToSet(inflight)
            /\ \A row \in r.snap : row.gst_number = {} /\ row.shop_name = setup.shopName
     /\ \A r \in Pending("handleSetup") :
          (HandleSetupEnd(r, HandleSetupCall(r)) /\ ~HandleSetupCall(r).error) =>
            /\ r.snap \subseteq db'.sellers
            /\ route' = "tabs"]_vars

\* C16 witness: s3 submitted the form with the address empty and was told to
\* fill in the required fields; nothing is in flight and s3 has no sellers row.
C16_Witness ==
  /\ user = {"s3"}
  /\ route = "profile-setup"
  /\ setup.shopName # "" /\ setup.ownerName # "" /\ setup.phone # ""
  /\ setup.address = ""
  /\ setup.error = "Please fill in all required fields"
  /\ inflight = EmptyBag
  /\ \A row \in db.sellers : row.id # "s3"

\* C17: toggleStock and removeProduct leave the products list as it is when
\* they are called; a call that ends with an error leaves the list and the
\* store as they are; the list changes at the end of a call only when the
\* call ended without error.
C17_ListChangesOnlyOnSuccess ==
  [][/\ (\E item \in products : ToggleStockTap(item) \/ RemoveProductTap(item)) =>
          products' = products
     /\ \A r \in Pending("toggleStock") :
          /\ ToggleStockEnd(r, NetworkError(db)) => products' = products /\ db' = db
          /\ (ToggleStockEnd(r, ToggleStockCall(r)) /\ products' # products) =>
               ~ToggleStockCall(r).error
     /\ \A r \in Pending("removeProduct") :
          /\ RemoveProductEnd(r, NetworkError(db)) => products' = products /\ db' = db
          /\ (RemoveProductEnd(r, RemoveProductCall(r)) /\ products' # products) =>
               ~RemoveProductCall(r).error]_vars

\* C17 witness: the one toggle made so far has ended with an error; the list
\* and the store still show the status the row had, and the list is loaded.
C17_Witness ==
  /\ inflight = EmptyBag
  /\ Cardinality(products) = 2
  /\ \E h \in hist :
       /\ h.taps = 1 /\ h.done = 1 /\ ~h.ok
       /\ \E p \in products : p.id = h.row /\ p.stock_status = h.base
       /\ \E x \in db.seller_products : x.id = h.row /\ x.stock_status = h.base

\* C18: a removeProduct call that reaches the store removes the
\* seller_products row whose id it was given and no other row of
\* seller_products, and leaves every other table, master_products, orders
\* and order_items among them, as it was.
C18_RemoveDeletesOnlyTarget ==
  [][\A r \in Pending("removeProduct") :
       RemoveProductEnd(r, RemoveProductCall(r)) =>
         /\ db'.seller_products =
              db.seller_products \ {x \in db.seller_products : x.id = r.row}
         /\ \A x \in db.seller_products \ db'.seller_products : x.seller_id = r.uid
         /\ \A t \in Tables \ {"seller_products"} : db'[t] = db[t]]_vars

\* C18 witness: a row has been removed from the store and from the list,
\* another row of the same seller and the row of the other seller are still
\* stored, and the master products, orders and order items are all there.
C18_Witness ==
  /\ inflight = EmptyBag
  /\ Cardinality(db.seller_products) = 2
  /\ Cardinality(products) = 1
  /\ \A p \in products : \E x \in db.seller_products : x.id = p.id /\ x.seller_id = "s1"
  /\ \E x \in db.seller_products : x.seller_id = "s2"
  /\ Cardinality(db.master_products) = 3
  /\ Cardinality(db.orders) = 2
  /\ Cardinality(db.order_items) = 2

\* C19: a save that reaches the store sets shop_name, owner_name, phone,
\* address and gst_number of the caller's sellers row to the edited values and
\* leaves that row's id, email and is_verified, every other sellers row and
\* every other table as they were; a save that ends with an error leaves the
\* displayed profile and the edit mode as they were.
C19_SaveWritesOwnFields ==
  [][\A r \in Pending("handleSave") :
       /\ HandleSaveEnd(r, HandleSaveCall(r)) =>
            /\ ~HandleSaveCall(r).error
            /\ db'.sellers =
                 {IF row.id = r.uid
                  THEN [row EXCEPT !.shop_name = (CHOOSE e \in r.snap : TRUE).shop_name,
                                   !.owner_name = (CHOOSE e \in r.snap : TRUE).owner_name,
                                   !.phone = (CHOOSE e \in r.snap : TRUE).phone,
                                   !.address = (CHOOSE e \in r.snap : TRUE).address,
                                   !.gst_number = (CHOOSE e \in r.snap : TRUE).gst_number]
                  ELSE row : row \in db.sellers}
            /\ \A t \in Tables \ {"sellers"} : db'[t] = db[t]
       /\ HandleSaveEnd(r, NetworkError(db)) =>
            profile' = profile /\ editing' = editing /\ db' = db]_vars

\* C19 witness: s1's edited shop name and GST number have been saved; the
\* stored row carries them with its id, email and unverified flag, the
\* screen shows it and has left edit mode, and s2's row is as it started.
C19_Witness ==
  /\ inflight = EmptyBag
  /\ ~editing
  /\ \E row \in db.sellers :
       /\ row.id = "s1" /\ row.email = "s1" /\ ~row.is_verified
       /\ row.shop_name = "x" /\ row.gst_number = {"x"}
       /\ profile = {row}
  /\ SellerOf("s2") \in db.sellers

\* C20: whenever the profile screen is not in edit mode, editedProfile
\* equals the displayed profile.
C20_EditedEqualsProfileOutsideEdit ==
  ~editing => editedProfile = profile

\* C21: under no identity's session does an insert or delete change orders,
\* or an insert, update or delete change order_items; an update of orders
\* and the remote call of updateOrderStatus keep the set of order ids and
\* change only rows owned by the caller; the order ids and the order items
\* are the ones the store started with.
C21_OrderDataOnlyUpdatedByOwner ==
  /\ Ids(db.orders) = Ids(InitDb({}).orders)
  /\ db.order_items = InitDb({}).order_items
  /\ \A uid \in Identities :
       /\ \A row \in ApiRows("orders", nextId) : Insert(db, uid, "orders", row).db = db
       /\ \A row \in db.orders : Delete(db, uid, "orders", row.id).db = db
       /\ \A row \in ApiRows("order_items", nextId) :
            Insert(db, uid, "order_items", row).db = db
       /\ \A row \in db.order_items :
            /\ Delete(db, uid, "order_items", row.id).db = db
            /\ \A patch \in ApiPatches("order_items") :
                 Update(db, uid, "order_items", row.id, patch).db = db
       /\ \A row \in db.orders, patch \in ApiPatches("orders") :
            LET e == Update(db, uid, "orders", row.id, patch).db
            IN /\ Ids(e.orders) = Ids(db.orders)
               /\ \A t \in Tables \ {"orders"} : e[t] = db[t]
               /\ \A o \in db.orders \ e.orders : o.seller_id = uid /\ o.id = row.id
       /\ \A row \in db.orders, newStatus \in STATUS_OPTIONS :
            LET e == UpdateOrderStatusCall(
                       Req("updateOrderStatus", uid, 0, row.id, newStatus, {})).db
            IN /\ \A t \in Tables \ {"orders"} : e[t] = db[t]
               /\ e.orders = IF row.seller_id = uid
                             THEN (db.orders \ {row}) \cup {[row EXCEPT !.status = newStatus]}
                             ELSE db.orders

\* C21 witness: sellers have written the store (s1 updated its order to
\* delivered, s2's order is as it started, a product row was added),
\* and both orders and both order items are there.
C21_Witness ==
  /\ \E o \in db.orders : o.id = "o1" /\ o.seller_id = "s1" /\ o.status = "delivered"
  /\ \E o \in db.orders : o.id = "o2" /\ o.seller_id = "s2" /\ o.status = "confirmed"
  /\ \E row \in db.seller_products : row.id = 3
  /\ Cardinality(db.orders) = 2
  /\ Cardinality(db.order_items) = 2

\* C22: when signIn, signUp, signInWithPhone or verifyOtp returns an error,
\* the route stays as it is; and when the screen that made the call is still
\* the one shown, its error message is not empty afterwards and its loading
\* flag is false.
C22_FailedAuthShowsError ==
  [][LET Failed(r) == route' = route /\ user' = user
                      /\ (r.snap = {} => form'.error # "" /\ ~form'.loading)
     IN /\ \A r \in Pending("handleEmailLogin") :
             \A res \in AuthOutcomes(SignIn(accounts, challenge, r.key, r.arg)) :
               (res.error /\ HandleEmailLoginEnd(r, res)) => Failed(r)
        /\ \A r \in Pending("handleEmailSignup") :
             \A res \in AuthOutcomes(SignUp(accounts, challenge, r.key, r.arg)) :
               (res.error /\ HandleEmailSignupEnd(r, res)) => Failed(r)
        /\ \A r \in Pending("handlePhoneSendOtp") :
             \A res \in AuthOutcomes(SignInWithPhone(accounts, challenge, r.key)) :
               (res.error /\ HandlePhoneSendOtpEnd(r, res)) => Failed(r)
        /\ \A screen \in {"login", "signup"} : \A r \in Pending(VerifyKind(screen)) :
             \A res \in AuthOutcomes(VerifyOtp(accounts, challenge, r.key, r.arg)) :
               (res.error /\ HandlePhoneVerifyOtpEnd(screen, r, res)) => Failed(r)]_vars

\* C22 witness: on the login screen signIn was refused for s1 with a wrong
\* password; the screen shows the gateway's message, is not loading, nobody
\* is signed in and the login screen is still shown.
C22_Witness ==
  /\ route = "login"
  /\ form.mode = "email"
  /\ form.email = <<"s1">>
  /\ form.password # RegisteredPassword
  /\ form.error = "Invalid login credentials"
  /\ ~form.loading
  /\ user = {}
  /\ inflight = EmptyBag

\* C23: an addProduct call that the store accepts adds exactly one
\* seller_products row, owned by the signed-in seller, for the product
\* tapped, with stock_status available, and the list then marks that product
\* as added; a call for a product the seller already holds is refused, and a
\* refused call leaves the store and the catalog list as they were.
C23_AddProductEffect ==
  [][\A r \in Pending("addProduct") :
       AddProductEnd(r, AddProductCall(r)) =>
         /\ r.uid \in user
         /\ (\E x \in db.seller_products : x.seller_id = r.uid /\ x.product_id = r.key)
              => AddProductCall(r).error
         /\ IF AddProductCall(r).error
            THEN db' = db /\ catalog' = catalog
            ELSE /\ \E row \in db'.seller_products :
                      /\ row \notin db.seller_products
                      /\ db'.seller_products = db.seller_products \cup {row}
                      /\ row.seller_id = r.uid
                      /\ row.product_id = r.key
                      /\ row.stock_status = "available"
                 /\ \A t \in Tables \ {"seller_products"} : db'[t] = db[t]
                 /\ \E p \in catalog' : p.id = r.key
                 /\ \A p \in catalog' : p.id = r.key => p.is_added]_vars

\* C23 witness: s1 tapped add twice for p1; the first call has stored the
\* row as available and the list marks p1 added, the second call is about
\* to meet the unique constraint.
C23_Witness ==
  /\ \E x \in db.seller_products :
       x.seller_id = "s1" /\ x.product_id = "p1" /\ x.stock_status = "available"
  /\ \E p \in catalog : p.id = "p1" /\ p.is_added
  /\ \E r \in Pending("addProduct") :
       r.uid = "s1" /\ r.key = "p1" /\ AddProductCall(r).error

\* C24: whenever the order detail view is open, every one of the five
\* statuses can be sent for the selected order, whatever status it shows;
\* and for every stored order and every one of the five statuses, its current
\* one included, the update sent under its owner's session is accepted and
\* stores that status.
C24_AnyStatusAccepted ==
  LET Five == {"confirmed", "packed", "shipped", "delivered", "cancelled"}
  IN /\ (modalVisible /\ selectedOrder # {} /\ user # {} /\ CanSend) =>
          \A newStatus \in Five : ENABLED UpdateOrderStatusTap(newStatus)
     /\ \A o \in db.orders, newStatus \in Five :
          LET res == UpdateOrderStatusCall(
                       Req("updateOrderStatus", o.seller_id, 0, o.id, newStatus, {}))
          IN /\ ~res.error
             /\ res.db.orders = (db.orders \ {o}) \cup {[o EXCEPT !.status = newStatus]}

\* C24 witness: s1's order was opened showing delivered and from there set
\* to packed: the store and the list hold packed, the order last opened
\* still shows delivered.
C24_Witness ==
  /\ \E o \in db.orders : o.id = "o1" /\ o.status = "packed"
  /\ \E o \in orders : o.id = "o1" /\ o.status = "packed"
  /\ \E o \in selectedOrder : o.id = "o1" /\ o.status = "delivered"
  /\ ~modalVisible
  /\ inflight = EmptyBag

\* C25: toggleStock and removeProduct calls on different rows overlap and all
\* reach the store; once none is in flight, the products list holds exactly
\* the signed-in seller's seller_products rows of the store, each with its
\* stored stock_status.
C25_InventoryConverges ==
  inflight = EmptyBag =>
    \A u \in user :
      products = {SellerProductView(x) : x \in {y \in db.seller_products : y.seller_id = u}}

\* C26: with no reload of the catalog, a product that the list marks as
\* added and that the signed-in seller holds in the store is still marked as
\* added after any step, the completion of an addProduct for another product
\* included.
C26_AddedStaysAdded ==
  [][\A p \in catalog :
       (/\ p.is_added
        /\ \E u \in user : \E x \in db'.seller_products :
             x.seller_id = u /\ x.product_id = p.id) =>
         \E q \in catalog' : q.id = p.id /\ q.is_added]_vars

\* C27: whenever the profile setup screen is shown, the signed-in identity
\* has no sellers row.
C27_NoSetupForExistingSeller ==
  route = "profile-setup" =>
    \A u \in user : \A row \in db.sellers : row.id # u

\* C28: every verifyOtp call in flight is for a phone number for which a
\* signInWithPhone call has succeeded; while the code form is shown
\* (otpSent) the phone number of the form is such a number and cannot be
\* edited; "Change phone number" resets otpSent and the code; switching
\* between email and phone mode leaves phone and otpSent as they are.
C28_VerifyOnlyAfterSend ==
  [][/\ \A screen \in {"login", "signup"} : \A r \in Pending(VerifyKind(screen)) :
          r.key \in hist
     /\ (OnAuthScreen /\ form.otpSent) => form.phone \in hist
     /\ (OnAuthScreen /\ form.otpSent /\ form'.otpSent /\ route' = route) =>
          form'.phone = form.phone
     /\ ChangePhoneNumber => ~form'.otpSent /\ form'.otp = <<>>
     /\ \A m \in {"email", "phone"} :
          SetMode(m) => form'.phone = form.phone /\ form'.otpSent = form.otpSent]_vars

\* C28 witness: on the signup screen a code was requested for +1, the number
\* was changed and a code requested for +2, and verifyOtp is in flight for
\* +2 from the screen shown.
C28_Witness ==
  /\ route = "signup"
  /\ hist = {<<"+", "1">>, <<"+", "2">>}
  /\ form.mode = "phone"
  /\ form.otpSent
  /\ form.phone = <<"+", "2">>
  /\ \E r \in Pending(VerifyKind("signup")) : r.key = <<"+", "2">> /\ r.snap = {}

\* C29: once loadProfile has completed (loading is false), the profile
\* screen eventually shows the profile instead of "Loading...".
C29_ProfileEventuallyShown ==
  (~profileLoading) ~> ProfileVisible

\* C30: in every state of the store, no update under any identity's session
\* changes the seller_id of a seller_products, orders or notifications row,
\* and none changes the id of a sellers row; the rows the store started with
\* have the owner they started with.
C30_OwnerNeverChanges ==
  /\ \A uid \in Identities :
       /\ \A t \in {"seller_products", "orders", "notifications"} :
            \A row \in db[t], patch \in ApiPatches(t) :
              LET e == Update(db, uid, t, row.id, patch).db
              IN \A old \in db[t], new \in e[t] :
                   new.id = old.id => new.seller_id = old.seller_id
       /\ \A row \in db.sellers, patch \in ApiPatches("sellers") :
            LET e == Update(db, uid, "sellers", row.id, patch).db
            IN /\ Ids(e.sellers) = Ids(db.sellers)
               /\ Cardinality(e.sellers) = Cardinality(db.sellers)
  /\ \A row \in db.seller_products :
       (row.id = 1 => row.seller_id = "s1") /\ (row.id = 2 => row.seller_id = "s2")
  /\ \A t \in {"orders", "notifications"} :
       \A row \in db[t], old \in InitDb({})[t] :
         row.id = old.id => row.seller_id = old.seller_id
  /\ {"s1", "s2"} \subseteq Ids(db.sellers)

\* C30 witness: s1 has updated its product, its order, its notification and
\* its sellers row, s2 its product; each row has the owner it started with.
C30_Witness ==
  /\ \E row \in db.seller_products :
       row.id = 1 /\ row.seller_id = "s1" /\ row.stock_status = "out_of_stock"
  /\ \E row \in db.seller_products :
       row.id = 2 /\ row.seller_id = "s2" /\ row.stock_status = "out_of_stock"
  /\ \E row \in db.orders : row.id = "o1" /\ row.seller_id = "s1" /\ row.status = "delivered"
  /\ \E row \in db.notifications : row.id = "n1" /\ row.seller_id = "s1" /\ row.is_read
  /\ \E row \in db.sellers : row.id = "s1" /\ row.shop_name = "renamed"

====
